---- MODULE Spec2Model ----
(***************************************************************************)
(* The metadata journal (MDLog) of src/src/tools/crushtool.cc: the submit  *)
(* path, segment rotation, the trimmer, replay, standby trim, and the      *)
(* recovery / reformat tasks with the JournalPointer flip.                 *)
(*                                                                         *)
(* The specifications share the variables:                                 *)
(*   Spec          the log of one node: submit, rotate, flush, trim,       *)
(*                 expiry completions, cap, restart, replay, standby trim; *)
(*   SpecRecovery  the recovery and reformat tasks over the persisted      *)
(*                 JournalPointer and journals, with crashes;              *)
(*   SpecTrim      the writer and the trimmer under two segment limits;    *)
(*   SpecReplay    replay of journals that may hold an undecodable entry;  *)
(*   SpecDebug     writer, restart and replay with mds_debug_subtrees;     *)
(*   SpecReplayFair  SpecReplay with a scheduled task and a backend that   *)
(*                 answers, for the termination of replay;                 *)
(*   SpecTasks     the background tasks and mds_lock: recovery and         *)
(*                 reformat of a journal, or the replay of one.            *)
(*                                                                         *)
(* Journaler, JournalPointer, LogEvent, LogSegment and the inline methods  *)
(* of MDLog.h are not part of the source file; what the model needs of     *)
(* them is taken from the specification text and marked so in the map.     *)
(* The model runs with journaling enabled (g_conf->mds_log).               *)
(***************************************************************************)
EXTENDS Integers, Sequences, FiniteSets, TLC

\* ------------------------------------------------------------------ bounds
\* journal offsets are capped: no append may take write_pos beyond MaxPos
MaxPos == 7
\* the journal recovery finds holds at most MaxEntries entries
MaxEntries == 2

\* ---------------------------------------------------------- configuration
mds_log == TRUE
mds_log_max_events == -1
mds_log_max_expiring == 2

\* ------------------------------------------------------------- event types
EVENT_SUBTREEMAP == 2
EVENT_IMPORTFINISH == 5
EVENT_RESETJOURNAL == 9
EVENT_UPDATE == 20
EVENT_SUBTREEMAP_TEST == 50

KnownTypes ==
  {EVENT_SUBTREEMAP, EVENT_IMPORTFINISH, EVENT_RESETJOURNAL, EVENT_UPDATE,
   EVENT_SUBTREEMAP_TEST}

\* payloads are opaque to the journal; the subtree maps the metadata cache
\* creates have one of two sizes
Payloads == { <<>>, <<7>> }

NULL == [null |-> TRUE]

\* backend error codes
ENOENT == 2
EINVAL == 22
EIO == 5
EAGAIN == 11

VARIABLES
  \* ---- configuration read while the log runs
  mds_log_max_segments,         \* g_conf->mds_log_max_segments
  mds_log_skip_corrupt_events,  \* g_conf->mds_log_skip_corrupt_events
  layout_period,                \* journaler->get_layout_period()
  \* ---- MDS / MDLog
  mds_state,          \* "replay" | "resolve" | "active"
  debug_subtrees,     \* g_conf->mds_debug_subtrees
  capped,
  cur_event,          \* the entry in progress, or NULL
  segments,           \* offset -> [offset, end, num_events]
  expiring_segments,  \* set of LogSegment* (a segment is named by its offset)
  expired_segments,
  num_events, expiring_events, expired_events,
  \* ---- the active Journaler and the journal it is backed by
  stream,             \* the journal stream, one cell per unit of offset
  write_pos, safe_pos, read_pos, expire_pos,
  readonly,
  jerror,             \* Journaler::get_error()
  head_expire,        \* expire_pos of the journal head as last written
  \* ---- replay task
  replay_pc,          \* "idle" | "running" | "readable_wait" | "readable" |
                      \* "reread_wait" | "done" | "aborted" | "suicide"
  replay_r,           \* {status handed to the replay waiters}, {} before
  already_replayed,
  restarted,          \* the process has been restarted
  \* ---- histories
  submitted,          \* events journalled by submit_entry, in order
  dispatched,         \* events handed to LogEvent::replay, in order
  \* ---- recovery / reformat task and persisted objects
  pointer,            \* the JournalPointer object: [front, back] or NULL
  journals,           \* ino -> [exists, format, entries, head, flushed]
  rpc,                \* position of the recovery / reformat task
  jp,                 \* the task's JournalPointer
  mds_lock,           \* the background task (recovery, reformat or replay)
                      \* holds mds->mds_lock
  journaler,          \* ino of the installed Journaler, 0 for none
  completion,         \* {status the completion was invoked with}, {} before
  task,               \* the reformat's locals: r, the old journal's read_pos,
                      \* the new journal as appended so far
  erase_result,       \* {result of the recovery's erase of the back journal}
  crash_at,           \* where the task was when the process last died
  unlocked_calls,     \* the calls the task has made without mds_lock
  orig                \* [front, entries] of the front journal at startup

confvars == <<mds_log_max_segments, mds_log_skip_corrupt_events, layout_period>>

logvars ==
  <<confvars, mds_state, debug_subtrees, capped, cur_event, segments, expiring_segments,
    expired_segments, num_events, expiring_events, expired_events, stream,
    write_pos, safe_pos, read_pos, expire_pos, readonly, jerror, head_expire,
    replay_pc, replay_r, already_replayed, restarted, submitted, dispatched>>

recvars ==
  <<pointer, journals, rpc, jp, mds_lock, journaler, completion, task,
    erase_result, crash_at, unlocked_calls, orig>>

\* recvars without the lock
taskvars ==
  <<pointer, journals, rpc, jp, journaler, completion, task, erase_result,
    crash_at, unlocked_calls, orig>>

vars == <<logvars, recvars>>

\* ----------------------------------------------------------------- helpers
Max(S) == CHOOSE x \in S : \A y \in S : y <= x
Min(S) == CHOOSE x \in S : \A y \in S : x <= y

\* ------------------------------------------------------------ wire format
\* LogEvent::encode_with_header: [ length | type tag | payload ]
encode_with_header(le) == <<Len(le.payload), le.type>> \o le.payload

\* Journaler::append_entry: the entry goes to the end of the stream
append_entry(st, bl) == st \o bl

\* Journaler::try_read_entry at offset pos: the entry's cells and the offset
\* after it
entry_len(st, pos) == 2 + st[pos + 1]
try_read_entry(st, pos) ==
  [bl |-> SubSeq(st, pos + 1, pos + entry_len(st, pos)),
   next |-> pos + entry_len(st, pos)]

\* LogEvent::decode: NULL when the entry cannot be decoded
decode(bl) ==
  IF Len(bl) >= 2 /\ bl[1] = Len(bl) - 2 /\ bl[2] \in KnownTypes
  THEN [type |-> bl[2], payload |-> SubSeq(bl, 3, Len(bl)), start_off |-> 0]
  ELSE NULL

\* offsets at which an entry of the stream starts, and the end of the stream
RECURSIVE BoundariesFrom(_, _)
BoundariesFrom(st, pos) ==
  IF pos >= Len(st) THEN {pos}
  ELSE {pos} \cup BoundariesFrom(st, pos + entry_len(st, pos))
Boundaries(st) == BoundariesFrom(st, 0)

\* --------------------------------------------------- MDLog.h inline methods
have_any_segments(segs) == DOMAIN segs # {}
get_last_segment_offset(segs) == Max(DOMAIN segs)
peek_current_segment(segs) == IF DOMAIN segs = {} THEN -1 ELSE Max(DOMAIN segs)
get_current_segment(segs) == Max(DOMAIN segs)
get_oldest_segment(segs) == Min(DOMAIN segs)
\* std::map erase of one key
map_erase(segs, k) == [o \in DOMAIN segs \ {k} |-> segs[o]]
remove_oldest_segment(segs) == map_erase(segs, get_oldest_segment(segs))
\* segments[k] = new LogSegment(k)
LogSegment(off) == [offset |-> off, end |-> off, num_events |-> 0]
map_assign(segs, k, v) == [o \in DOMAIN segs \cup {k} |-> IF o = k THEN v ELSE segs[o]]

is_any_replay == mds_state = "replay"
is_resolve == mds_state = "resolve"

\* ---------------------------------------------------------------- submit
\* The state the submit path works on.
WriteState ==
  [segments |-> segments, num_events |-> num_events, stream |-> stream,
   cur_event |-> cur_event, submitted |-> submitted, failed |-> FALSE]

get_write_pos(s) == Len(s.stream)

\* start_entry that does not stamp the event with the write position
start_entry_unstamped(s, e) ==
  IF s.cur_event # NULL THEN [s EXCEPT !.failed = TRUE]
  ELSE [s EXCEPT !.cur_event = e]

\* MDLog::start_entry; a failed assertion ends the process (failed)
start_entry(s, e) ==
  IF s.cur_event # NULL THEN [s EXCEPT !.failed = TRUE]
  ELSE [s EXCEPT !.cur_event = [e EXCEPT !.start_off = get_write_pos(s)]]

\* create_subtree_map that hands out an event of another type
create_subtree_map_update(s, payload) ==
  start_entry(s, [type |-> EVENT_UPDATE, payload |-> payload, start_off |-> 0])

\* MDCache::create_subtree_map: a new ESubtreeMap, started as the entry in
\* progress
create_subtree_map(s, payload) ==
  start_entry(s, [type |-> EVENT_SUBTREEMAP, payload |-> payload, start_off |-> 0])

\* prepare_new_segment that files the segment under the flushed position
prepare_new_segment_at_safe_pos(s) ==
  [s EXCEPT !.segments = map_assign(s.segments, safe_pos, LogSegment(safe_pos))]

\* MDLog::prepare_new_segment
prepare_new_segment(s) ==
  [s EXCEPT !.segments =
     map_assign(s.segments, get_write_pos(s), LogSegment(get_write_pos(s)))]

RECURSIVE submit_entry(_, _, _)
RECURSIVE start_new_segment(_, _)

\* journal_segment_subtree_map that journals nothing
journal_segment_subtree_map_skip(s, maps) == s

\* MDLog::journal_segment_subtree_map
journal_segment_subtree_map(s, maps) ==
  LET s1 == create_subtree_map(s, Head(maps))
  IN IF s1.failed THEN s1 ELSE submit_entry(s1, s1.cur_event, Tail(maps))

\* start_new_segment that starts a second segment after its subtree map
start_new_segment_again(s, maps) ==
  LET s1 == journal_segment_subtree_map(prepare_new_segment(s), maps)
  IN IF s1.failed THEN s1
     ELSE journal_segment_subtree_map(prepare_new_segment(s1), maps)

\* MDLog::start_new_segment (onsync only waits and flushes)
start_new_segment(s, maps) ==
  journal_segment_subtree_map(prepare_new_segment(s), maps)

\* submit_entry that leaves its event the entry in progress
submit_entry_keep_cur(s, le, maps) ==
  IF is_any_replay \/ s.cur_event # le THEN [s EXCEPT !.failed = TRUE]
  ELSE IF ~mds_log THEN [s EXCEPT !.cur_event = NULL]
  ELSE IF DOMAIN s.segments = {} \/ capped THEN [s EXCEPT !.failed = TRUE]
  ELSE
    LET cur == get_current_segment(s.segments)
        bl == encode_with_header(le)
        st == append_entry(s.stream, bl)
        s1 == [s EXCEPT !.segments[cur].num_events = @ + 1,
                        !.segments[cur].end = Len(st),
                        !.num_events = @ + 1,
                        !.stream = st,
                        !.submitted = Append(@, le)]
        last_seg == get_last_segment_offset(s1.segments)
        period == layout_period
    IN IF le.type = EVENT_SUBTREEMAP
          \/ (le.type = EVENT_IMPORTFINISH /\ is_resolve)
       THEN [s1 EXCEPT !.cur_event = NULL]
       ELSE IF get_write_pos(s1) \div period # last_seg \div period
       THEN start_new_segment(s1, maps)
       ELSE IF debug_subtrees /\ le.type # EVENT_SUBTREEMAP_TEST
       THEN LET s2 == create_subtree_map(s1, Head(maps))
                sle == [s2.cur_event EXCEPT !.type = EVENT_SUBTREEMAP_TEST]
            IN IF s2.failed THEN s2
               ELSE submit_entry([s2 EXCEPT !.cur_event = sle], sle, Tail(maps))
       ELSE [s1 EXCEPT !.cur_event = NULL]

\* submit_entry that rotates after an IMPORT_FINISH during resolve as well
submit_entry_no_suppress(s, le, maps) ==
  IF is_any_replay \/ s.cur_event # le THEN [s EXCEPT !.failed = TRUE]
  ELSE IF ~mds_log THEN [s EXCEPT !.cur_event = NULL]
  ELSE IF DOMAIN s.segments = {} \/ capped THEN [s EXCEPT !.failed = TRUE]
  ELSE
    LET cur == get_current_segment(s.segments)
        bl == encode_with_header(le)
        st == append_entry(s.stream, bl)
        s1 == [s EXCEPT !.cur_event = NULL,
                        !.segments[cur].num_events = @ + 1,
                        !.segments[cur].end = Len(st),
                        !.num_events = @ + 1,
                        !.stream = st,
                        !.submitted = Append(@, le)]
        last_seg == get_last_segment_offset(s1.segments)
        period == layout_period
    IN IF le.type = EVENT_SUBTREEMAP
       THEN s1
       ELSE IF get_write_pos(s1) \div period # last_seg \div period
       THEN start_new_segment(s1, maps)
       ELSE IF debug_subtrees /\ le.type # EVENT_SUBTREEMAP_TEST
       THEN LET s2 == create_subtree_map(s1, Head(maps))
                sle == [s2.cur_event EXCEPT !.type = EVENT_SUBTREEMAP_TEST]
            IN IF s2.failed THEN s2
               ELSE submit_entry([s2 EXCEPT !.cur_event = sle], sle, Tail(maps))
       ELSE s1

\* submit_entry that looks at capped after it has journalled the event
submit_entry_late_cap(s, le, maps) ==
  IF is_any_replay \/ s.cur_event # le THEN [s EXCEPT !.failed = TRUE]
  ELSE IF ~mds_log THEN [s EXCEPT !.cur_event = NULL]
  ELSE IF DOMAIN s.segments = {} THEN [s EXCEPT !.failed = TRUE]
  ELSE
    LET cur == get_current_segment(s.segments)
        bl == encode_with_header(le)
        st == append_entry(s.stream, bl)
        s1 == [s EXCEPT !.cur_event = NULL,
                        !.segments[cur].num_events = @ + 1,
                        !.segments[cur].end = Len(st),
                        !.num_events = @ + 1,
                        !.stream = st,
                        !.submitted = Append(@, le)]
        last_seg == get_last_segment_offset(s1.segments)
        period == layout_period
    IN IF capped THEN [s1 EXCEPT !.failed = TRUE]
       ELSE IF le.type = EVENT_SUBTREEMAP
          \/ (le.type = EVENT_IMPORTFINISH /\ is_resolve)
       THEN s1
       ELSE IF get_write_pos(s1) \div period # last_seg \div period
       THEN start_new_segment(s1, maps)
       ELSE IF debug_subtrees /\ le.type # EVENT_SUBTREEMAP_TEST
       THEN LET s2 == create_subtree_map(s1, Head(maps))
                sle == [s2.cur_event EXCEPT !.type = EVENT_SUBTREEMAP_TEST]
            IN IF s2.failed THEN s2
               ELSE submit_entry([s2 EXCEPT !.cur_event = sle], sle, Tail(maps))
       ELSE s1

\* MDLog::submit_entry. maps are the payloads the metadata cache gives the
\* subtree maps it is asked for during this call.
submit_entry(s, le, maps) ==
  IF is_any_replay \/ s.cur_event # le THEN [s EXCEPT !.failed = TRUE]
  ELSE IF ~mds_log THEN [s EXCEPT !.cur_event = NULL]
  ELSE IF DOMAIN s.segments = {} \/ capped THEN [s EXCEPT !.failed = TRUE]
  ELSE
    LET cur == get_current_segment(s.segments)
        bl == encode_with_header(le)
        st == append_entry(s.stream, bl)
        s1 == [s EXCEPT !.cur_event = NULL,
                        !.segments[cur].num_events = @ + 1,
                        !.segments[cur].end = Len(st),
                        !.num_events = @ + 1,
                        !.stream = st,
                        !.submitted = Append(@, le)]
        last_seg == get_last_segment_offset(s1.segments)
        period == layout_period
    IN IF le.type = EVENT_SUBTREEMAP
          \/ (le.type = EVENT_IMPORTFINISH /\ is_resolve)
       THEN s1
       ELSE IF get_write_pos(s1) \div period # last_seg \div period
       THEN start_new_segment(s1, maps)
       ELSE IF debug_subtrees /\ le.type # EVENT_SUBTREEMAP_TEST
       THEN LET s2 == create_subtree_map(s1, Head(maps))
                sle == [s2.cur_event EXCEPT !.type = EVENT_SUBTREEMAP_TEST]
            IN IF s2.failed THEN s2
               ELSE submit_entry([s2 EXCEPT !.cur_event = sle], sle, Tail(maps))
       ELSE s1

\* the payloads a call may be given for the subtree maps it creates
MapChoices == [1..2 -> Payloads]

\* write the submit path's state back
InstallWrite(s) ==
  /\ ~s.failed
  /\ Len(s.stream) <= MaxPos
  /\ segments' = s.segments
  /\ num_events' = s.num_events
  /\ stream' = s.stream
  /\ write_pos' = Len(s.stream)
  /\ cur_event' = s.cur_event
  /\ submitted' = s.submitted

\* the events callers submit: an update and the end of an import
CallerEvents ==
  {[type |-> EVENT_UPDATE, payload |-> <<7>>, start_off |-> 0],
   [type |-> EVENT_IMPORTFINISH, payload |-> <<>>, start_off |-> 0]}

\* a caller starts an entry (callers submit what they start, and line 921
\* excludes submits during replay)
StartEntry ==
  /\ ~is_any_replay
  /\ \E e \in CallerEvents : InstallWrite(start_entry(WriteState, e))
  /\ UNCHANGED <<mds_state, debug_subtrees, capped, expiring_segments,
                 expired_segments, expiring_events, expired_events, safe_pos,
                 read_pos, expire_pos, readonly, jerror, head_expire, replay_pc,
                 replay_r, already_replayed, dispatched, restarted, confvars, recvars>>

\* the caller submits the entry it started
SubmitEntry ==
  /\ cur_event # NULL
  /\ \E maps \in MapChoices : InstallWrite(submit_entry(WriteState, cur_event, maps))
  /\ UNCHANGED <<mds_state, debug_subtrees, capped, expiring_segments,
                 expired_segments, expiring_events, expired_events, safe_pos,
                 read_pos, expire_pos, readonly, jerror, head_expire, replay_pc,
                 replay_r, already_replayed, dispatched, restarted, confvars, recvars>>

\* a caller starts a new segment
StartNewSegment ==
  /\ ~is_any_replay
  /\ \E maps \in MapChoices : InstallWrite(start_new_segment(WriteState, maps))
  /\ UNCHANGED <<mds_state, debug_subtrees, capped, expiring_segments,
                 expired_segments, expiring_events, expired_events, safe_pos,
                 read_pos, expire_pos, readonly, jerror, head_expire, replay_pc,
                 replay_r, already_replayed, dispatched, restarted, confvars, recvars>>

\* --------------------------------------------------------------- trimmer
\* The state the trimmer works on.
TrimState ==
  [segments |-> segments, expiring |-> expiring_segments,
   expired |-> expired_segments, num_events |-> num_events,
   expiring_events |-> expiring_events, expired_events |-> expired_events,
   expire_pos |-> expire_pos, head_expire |-> head_expire]

\* ls->num_events
seg_num_events(t, ls) == t.segments[ls].num_events

\* _expired without the check of the current segment
expired_unguarded(t, ls) ==
  [t EXCEPT !.expired = @ \cup {ls},
            !.expired_events = @ + seg_num_events(t, ls)]

\* MDLog::_expired
expired_(t, ls) ==
  IF ~capped /\ ls = peek_current_segment(t.segments)
  THEN t
  ELSE [t EXCEPT !.expired = @ \cup {ls},
                 !.expired_events = @ + seg_num_events(t, ls)]

\* try_expire that goes on to _expired when the gather has work
try_expire_both(t, ls, has_subs) ==
  IF has_subs
  THEN expired_([t EXCEPT !.expiring = @ \cup {ls},
                          !.expiring_events = @ + seg_num_events(t, ls)], ls)
  ELSE expired_(t, ls)

\* MDLog::try_expire; has_subs: LogSegment::try_to_expire registered work
\* in the gather
try_expire(t, ls, has_subs) ==
  IF has_subs
  THEN [t EXCEPT !.expiring = @ \cup {ls},
                 !.expiring_events = @ + seg_num_events(t, ls)]
  ELSE expired_(t, ls)

\* _maybe_expired that leaves the segment in the expiring set
maybe_expired_keep(t, ls, has_subs) == try_expire(t, ls, FALSE)

\* MDLog::_maybe_expired, run by C_MaybeExpiredSegment when the gather ends
maybe_expired(t, ls, has_subs) ==
  try_expire([t EXCEPT !.expiring = @ \ {ls},
                       !.expiring_events = @ - seg_num_events(t, ls)],
             ls, has_subs)

\* MDLog::_trim_expired_segments
RECURSIVE trim_expired_loop(_, _)
\* the loop setting expire_pos without comparing it with the offset
trim_expired_loop_set(t, trimmed) ==
  IF DOMAIN t.segments = {} THEN [t |-> t, trimmed |-> trimmed]
  ELSE LET ls == get_oldest_segment(t.segments) IN
    IF ls \notin t.expired THEN [t |-> t, trimmed |-> trimmed]
    ELSE trim_expired_loop(
           [t EXCEPT !.expired_events = @ - t.segments[ls].num_events,
                     !.expired = @ \ {ls},
                     !.num_events = @ - t.segments[ls].num_events,
                     !.expire_pos = t.segments[ls].offset,
                     !.segments = map_erase(@, t.segments[ls].offset)],
           TRUE)

\* the loop leaving the segment it destroys in the expired set
trim_expired_loop_keep(t, trimmed) ==
  IF DOMAIN t.segments = {} THEN [t |-> t, trimmed |-> trimmed]
  ELSE LET ls == get_oldest_segment(t.segments) IN
    IF ls \notin t.expired THEN [t |-> t, trimmed |-> trimmed]
    ELSE trim_expired_loop(
           [t EXCEPT !.expired_events = @ - t.segments[ls].num_events,
                     !.num_events = @ - t.segments[ls].num_events,
                     !.expire_pos = IF @ < t.segments[ls].offset
                                    THEN t.segments[ls].offset ELSE @,
                     !.segments = map_erase(@, t.segments[ls].offset)],
           TRUE)

\* the loop that removes every expired segment, wherever it is in the index
trim_expired_loop_all(t, trimmed) ==
  IF t.expired \cap DOMAIN t.segments = {} THEN [t |-> t, trimmed |-> trimmed]
  ELSE LET ls == Min(t.expired \cap DOMAIN t.segments) IN
    trim_expired_loop(
      [t EXCEPT !.expired_events = @ - t.segments[ls].num_events,
                !.expired = @ \ {ls},
                !.num_events = @ - t.segments[ls].num_events,
                !.expire_pos = IF @ < t.segments[ls].offset
                               THEN t.segments[ls].offset ELSE @,
                !.segments = map_erase(@, t.segments[ls].offset)],
      TRUE)

trim_expired_loop(t, trimmed) ==
  IF DOMAIN t.segments = {} THEN [t |-> t, trimmed |-> trimmed]
  ELSE LET ls == get_oldest_segment(t.segments) IN
    IF ls \notin t.expired THEN [t |-> t, trimmed |-> trimmed]
    ELSE trim_expired_loop(
           [t EXCEPT !.expired_events = @ - t.segments[ls].num_events,
                     !.expired = @ \ {ls},
                     !.num_events = @ - t.segments[ls].num_events,
                     !.expire_pos = IF @ < t.segments[ls].offset
                                    THEN t.segments[ls].offset ELSE @,
                     !.segments = map_erase(@, t.segments[ls].offset)],
           TRUE)

trim_expired_segments(t) ==
  LET r == trim_expired_loop(t, FALSE)
  IN IF r.trimmed
     THEN [r.t EXCEPT !.head_expire = r.t.expire_pos]   \* write_head(0)
     ELSE r.t

\* the loop condition of MDLog::trim
over_limits(t, max_events) ==
  \/ /\ max_events >= 0
     /\ t.num_events - t.expiring_events - t.expired_events > max_events
  \/ /\ mds_log_max_segments >= 0
     /\ Cardinality(DOMAIN t.segments) - Cardinality(t.expiring)
          - Cardinality(t.expired) > mds_log_max_segments

\* keys of a map in ascending order
RECURSIVE SortedKeys(_)
SortedKeys(K) == IF K = {} THEN <<>> ELSE <<Min(K)>> \o SortedKeys(K \ {Min(K)})

\* the loop of MDLog::trim over the keys from p on. subs: the segments on
\* which try_to_expire registers work; budget: iterations before the two seconds are over
RECURSIVE trim_loop(_, _, _, _, _)
\* the loop without the check of the segment's end against the safe position
trim_loop_unsafe(t, p, max_events, subs, budget) ==
  IF p = <<>> \/ ~over_limits(t, max_events) THEN t
  ELSE IF budget = 0 THEN t
  ELSE IF Cardinality(t.expiring) >= mds_log_max_expiring THEN t
  ELSE LET ls == Head(p) IN
    IF ls \in t.expiring \/ ls \in t.expired
    THEN trim_loop(t, Tail(p), max_events, subs, budget - 1)
    ELSE trim_loop(try_expire(t, ls, ls \in subs), Tail(p), max_events, subs,
                   budget - 1)

\* the loop that stops at a segment that is already expiring or expired
trim_loop_stop(t, p, max_events, subs, budget) ==
  IF p = <<>> \/ ~over_limits(t, max_events) THEN t
  ELSE IF budget = 0 THEN t
  ELSE IF Cardinality(t.expiring) >= mds_log_max_expiring THEN t
  ELSE LET ls == Head(p) IN
    IF t.segments[ls].end > safe_pos THEN t
    ELSE IF ls \in t.expiring \/ ls \in t.expired THEN t
    ELSE trim_loop(try_expire(t, ls, ls \in subs), Tail(p), max_events, subs,
                   budget - 1)

\* the loop that does not look at the number of expiring segments
trim_loop_unbounded(t, p, max_events, subs, budget) ==
  IF p = <<>> \/ ~over_limits(t, max_events) THEN t
  ELSE IF budget = 0 THEN t
  ELSE LET ls == Head(p) IN
    IF t.segments[ls].end > safe_pos THEN t
    ELSE IF ls \in t.expiring \/ ls \in t.expired
    THEN trim_loop(t, Tail(p), max_events, subs, budget - 1)
    ELSE trim_loop(try_expire(t, ls, ls \in subs), Tail(p), max_events, subs,
                   budget - 1)

trim_loop(t, p, max_events, subs, budget) ==
  IF p = <<>> \/ ~over_limits(t, max_events) THEN t
  ELSE IF budget = 0 THEN t
  ELSE IF Cardinality(t.expiring) >= mds_log_max_expiring THEN t
  ELSE LET ls == Head(p) IN
    IF t.segments[ls].end > safe_pos THEN t
    ELSE IF ls \in t.expiring \/ ls \in t.expired
    THEN trim_loop(t, Tail(p), max_events, subs, budget - 1)
    ELSE trim_loop(try_expire(t, ls, ls \in subs), Tail(p), max_events, subs,
                   budget - 1)

\* trim that does not discard the expired segments
trim_keep(t, m, subs, budget) ==
  LET max_events == IF m >= 0 THEN m ELSE mds_log_max_events
  IN IF DOMAIN t.segments = {} THEN t
     ELSE trim_loop(t, SortedKeys(DOMAIN t.segments), max_events, subs, budget)

\* MDLog::trim(m)
trim(t, m, subs, budget) ==
  LET max_events == IF m >= 0 THEN m ELSE mds_log_max_events
  IN IF DOMAIN t.segments = {} THEN t
     ELSE trim_expired_segments(
            trim_loop(t, SortedKeys(DOMAIN t.segments), max_events, subs, budget))

InstallTrim(t) ==
  /\ segments' = t.segments
  /\ expiring_segments' = t.expiring
  /\ expired_segments' = t.expired
  /\ num_events' = t.num_events
  /\ expiring_events' = t.expiring_events
  /\ expired_events' = t.expired_events
  /\ expire_pos' = t.expire_pos
  /\ head_expire' = t.head_expire

\* the segments a trim can come to call try_expire on
ExpireCandidates ==
  {ls \in DOMAIN segments :
     /\ ls \notin expiring_segments \cup expired_segments
     /\ segments[ls].end <= safe_pos}

\* the periodic trim, or a caller's trim(m). The MDS trims and caps its log
\* once it is past replay and its journal is writeable: trim writes the
\* journal head.
Trim ==
  /\ ~readonly
  /\ \E m \in {-1, 0}, subs \in SUBSET ExpireCandidates,
        budget \in {0, 1, Cardinality(DOMAIN segments)} :
       InstallTrim(trim(TrimState, m, subs, budget))
  /\ UNCHANGED <<mds_state, debug_subtrees, capped, cur_event, stream, write_pos,
                 safe_pos, read_pos, readonly, jerror, replay_pc, replay_r,
                 already_replayed, submitted, dispatched, restarted, confvars, recvars>>

\* the gather of an expiring segment completes: C_MaybeExpiredSegment
ExpiryComplete ==
  /\ \E ls \in expiring_segments, has_subs \in BOOLEAN :
       InstallTrim(maybe_expired(TrimState, ls, has_subs))
  /\ UNCHANGED <<mds_state, debug_subtrees, capped, cur_event, stream, write_pos,
                 safe_pos, read_pos, readonly, jerror, replay_pc, replay_r,
                 already_replayed, submitted, dispatched, restarted, confvars, recvars>>

\* MDLog::cap
Cap ==
  /\ ~readonly
  /\ ~capped
  /\ capped' = TRUE
  /\ UNCHANGED <<mds_state, debug_subtrees, cur_event, segments,
                 expiring_segments, expired_segments, num_events,
                 expiring_events, expired_events, stream, write_pos, safe_pos,
                 read_pos, expire_pos, readonly, jerror, head_expire, replay_pc,
                 replay_r, already_replayed, submitted, dispatched, restarted, confvars, recvars>>

\* MDLog::flush and the backend's acknowledgement: what was appended so far
\* becomes durable
Flush ==
  /\ ~readonly
  /\ safe_pos < write_pos
  /\ safe_pos' = write_pos
  /\ UNCHANGED <<mds_state, debug_subtrees, capped, cur_event, segments,
                 expiring_segments, expired_segments, num_events,
                 expiring_events, expired_events, stream, write_pos, read_pos,
                 expire_pos, readonly, jerror, head_expire, replay_pc, replay_r,
                 already_replayed, submitted, dispatched, restarted, confvars, recvars>>

\* ---------------------------------------------------------------- replay
\* The state the replay task and standby trim work on.
ReplayState ==
  [segments |-> segments, num_events |-> num_events, read_pos |-> read_pos,
   expire_pos |-> expire_pos, dispatched |-> dispatched, r |-> 0,
   cache_trim |-> FALSE]

\* MDLog::standby_trim_segments
RECURSIVE standby_trim_loop(_, _)
\* the loop that keeps a segment that ends at expire_pos
standby_trim_loop_strict(rs, removed_segment) ==
  IF ~have_any_segments(rs.segments)
  THEN [rs EXCEPT !.cache_trim = removed_segment]
  ELSE LET seg == rs.segments[get_oldest_segment(rs.segments)] IN
    IF seg.end >= rs.expire_pos
    THEN [rs EXCEPT !.cache_trim = removed_segment]
    ELSE standby_trim_loop(
           [rs EXCEPT !.segments = remove_oldest_segment(@)], TRUE)

standby_trim_loop(rs, removed_segment) ==
  IF ~have_any_segments(rs.segments)
  THEN [rs EXCEPT !.cache_trim = removed_segment]
  ELSE LET seg == rs.segments[get_oldest_segment(rs.segments)] IN
    IF seg.end > rs.expire_pos
    THEN [rs EXCEPT !.cache_trim = removed_segment]
    ELSE standby_trim_loop(
           [rs EXCEPT !.segments = remove_oldest_segment(@)], TRUE)

standby_trim_segments(rs) == standby_trim_loop(rs, FALSE)

\* replay_entry with pos taken after the entry has been read
replay_entry_pos_after_read(rs) ==
  LET rd == try_read_entry(stream, rs.read_pos)
      pos == rd.next
      le0 == decode(rd.bl)
      rs1 == [rs EXCEPT !.read_pos = rd.next]
  IN IF le0 = NULL THEN rs1
     ELSE
       LET le == [le0 EXCEPT !.start_off = pos]
           segs == IF le.type \in {EVENT_SUBTREEMAP, EVENT_RESETJOURNAL}
                   THEN map_assign(rs1.segments, pos, LogSegment(pos))
                   ELSE rs1.segments
       IN IF DOMAIN segs = {} THEN rs1
          ELSE LET cur == get_current_segment(segs) IN
            [rs1 EXCEPT
               !.segments = [segs EXCEPT ![cur].num_events = @ + 1,
                                         ![cur].end = rd.next],
               !.num_events = @ + 1,
               !.dispatched = Append(@, le)]

\* replay_entry that counts the entry it cannot decode
replay_entry_count_corrupt(rs) ==
  LET pos == rs.read_pos
      rd == try_read_entry(stream, pos)
      le0 == decode(rd.bl)
      rs1 == [rs EXCEPT !.read_pos = rd.next]
  IN IF le0 = NULL THEN [rs1 EXCEPT !.num_events = @ + 1]
     ELSE
       LET le == [le0 EXCEPT !.start_off = pos]
           segs == IF le.type \in {EVENT_SUBTREEMAP, EVENT_RESETJOURNAL}
                   THEN map_assign(rs1.segments, pos, LogSegment(pos))
                   ELSE rs1.segments
       IN IF DOMAIN segs = {} THEN rs1
          ELSE LET cur == get_current_segment(segs) IN
            [rs1 EXCEPT
               !.segments = [segs EXCEPT ![cur].num_events = @ + 1,
                                         ![cur].end = rd.next],
               !.num_events = @ + 1,
               !.dispatched = Append(@, le)]

\* replay_entry that opens a segment at a SUBTREEMAP_TEST event as well
replay_entry_test_boundary(rs) ==
  LET pos == rs.read_pos
      rd == try_read_entry(stream, pos)
      le0 == decode(rd.bl)
      rs1 == [rs EXCEPT !.read_pos = rd.next]
  IN IF le0 = NULL THEN rs1
     ELSE
       LET le == [le0 EXCEPT !.start_off = pos]
           segs == IF le.type \in {EVENT_SUBTREEMAP, EVENT_RESETJOURNAL,
                                   EVENT_SUBTREEMAP_TEST}
                   THEN map_assign(rs1.segments, pos, LogSegment(pos))
                   ELSE rs1.segments
       IN IF DOMAIN segs = {} THEN rs1
          ELSE LET cur == get_current_segment(segs) IN
            [rs1 EXCEPT
               !.segments = [segs EXCEPT ![cur].num_events = @ + 1,
                                         ![cur].end = rd.next],
               !.num_events = @ + 1,
               !.dispatched = Append(@, le)]

\* replay_entry that replays an event read before any segment is open
replay_entry_unsegmented(rs) ==
  LET pos == rs.read_pos
      rd == try_read_entry(stream, pos)
      le0 == decode(rd.bl)
      rs1 == [rs EXCEPT !.read_pos = rd.next]
  IN IF le0 = NULL THEN rs1
     ELSE
       LET le == [le0 EXCEPT !.start_off = pos]
           segs == IF le.type \in {EVENT_SUBTREEMAP, EVENT_RESETJOURNAL}
                   THEN map_assign(rs1.segments, pos, LogSegment(pos))
                   ELSE rs1.segments
       IN IF DOMAIN segs = {}
          THEN [rs1 EXCEPT !.num_events = @ + 1,
                           !.dispatched = Append(@, le)]
          ELSE LET cur == get_current_segment(segs) IN
            [rs1 EXCEPT
               !.segments = [segs EXCEPT ![cur].num_events = @ + 1,
                                         ![cur].end = rd.next],
               !.num_events = @ + 1,
               !.dispatched = Append(@, le)]

\* one iteration of the loop of MDLog::_replay_thread that reads an entry
replay_entry(rs) ==
  LET pos == rs.read_pos
      rd == try_read_entry(stream, pos)
      le0 == decode(rd.bl)
      rs1 == [rs EXCEPT !.read_pos = rd.next]
  IN IF le0 = NULL THEN rs1     \* skipped (line 1570 has asserted the mode)
     ELSE
       LET le == [le0 EXCEPT !.start_off = pos]
           segs == IF le.type \in {EVENT_SUBTREEMAP, EVENT_RESETJOURNAL}
                   THEN map_assign(rs1.segments, pos, LogSegment(pos))
                   ELSE rs1.segments
       IN IF DOMAIN segs = {} THEN rs1
          ELSE LET cur == get_current_segment(segs) IN
            [rs1 EXCEPT
               !.segments = [segs EXCEPT ![cur].num_events = @ + 1,
                                         ![cur].end = rd.next],
               !.num_events = @ + 1,
               !.dispatched = Append(@, le)]

\* the error branch that hands ENOENT to the waiters as it is
replay_error_keep_enoent(rs, err, head) ==
  IF err = EINVAL THEN
    IF rs.read_pos < rs.expire_pos THEN [rs EXCEPT !.r = EAGAIN]
    ELSE LET rs1 == standby_trim_segments([rs EXCEPT !.expire_pos = head])
         IN IF rs1.read_pos < rs1.expire_pos THEN [rs1 EXCEPT !.r = EAGAIN]
            ELSE [rs1 EXCEPT !.r = err]
  ELSE [rs EXCEPT !.r = err]

\* the error branch that reads the head again whatever read_pos is
replay_error_always_reread(rs, err, head) ==
  IF err = ENOENT THEN [rs EXCEPT !.r = EAGAIN]
  ELSE IF err = EINVAL THEN
    LET rs1 == standby_trim_segments([rs EXCEPT !.expire_pos = head])
    IN IF rs1.read_pos < rs1.expire_pos THEN [rs1 EXCEPT !.r = EAGAIN]
       ELSE [rs1 EXCEPT !.r = err]
  ELSE [rs EXCEPT !.r = err]

\* the error branch reads the journal head again (lines 1509-1516)
rereads_head(rs, err) == err = EINVAL /\ rs.read_pos >= rs.expire_pos

\* the error branch of the loop (lines 1502-1545); head is what
\* Journaler::reread_head finds in the journal head
replay_error(rs, err, head) ==
  IF err = ENOENT THEN [rs EXCEPT !.r = EAGAIN]
  ELSE IF err = EINVAL THEN
    IF rs.read_pos < rs.expire_pos THEN [rs EXCEPT !.r = EAGAIN]
    ELSE LET rs1 == standby_trim_segments([rs EXCEPT !.expire_pos = head])
         IN IF rs1.read_pos < rs1.expire_pos THEN [rs1 EXCEPT !.r = EAGAIN]
            ELSE [rs1 EXCEPT !.r = err]
  ELSE [rs EXCEPT !.r = err]

InstallReplay(rs) ==
  /\ segments' = rs.segments
  /\ num_events' = rs.num_events
  /\ read_pos' = rs.read_pos
  /\ expire_pos' = rs.expire_pos
  /\ dispatched' = rs.dispatched

\* MDLog::replay(c)
Replay ==
  /\ readonly /\ is_any_replay
  /\ replay_pc \in {"idle", "done"}
  /\ replay_r \in {{}, {EAGAIN}}       \* the first call, or the caller's retry
  /\ IF read_pos = write_pos
     THEN /\ replay_r' = {0}
          /\ UNCHANGED <<replay_pc, already_replayed>>
     ELSE /\ num_events = 0 \/ already_replayed
          /\ already_replayed' = TRUE
          /\ replay_pc' = "running"
          /\ replay_r' = {}
  /\ mds_lock' = (replay_pc' = "running")      \* line 1489
  /\ UNCHANGED <<mds_state, debug_subtrees, capped, cur_event, segments,
                 expiring_segments, expired_segments, num_events,
                 expiring_events, expired_events, stream, write_pos, safe_pos,
                 read_pos, expire_pos, readonly, jerror, head_expire,
                 submitted, dispatched, restarted, confvars, taskvars>>

\* the replay task reads, decodes and replays one entry
ReplayEntry ==
  /\ replay_pc \in {"running", "readable"} /\ jerror = 0
  /\ read_pos < write_pos
  /\ decode(try_read_entry(stream, read_pos).bl) = NULL
       => mds_log_skip_corrupt_events
  /\ InstallReplay(replay_entry(ReplayState))
  /\ replay_pc' = "running"
  /\ mds_lock' = mds_lock                       \* lines 1601-1602
  /\ UNCHANGED <<mds_state, debug_subtrees, capped, cur_event,
                 expiring_segments, expired_segments, expiring_events,
                 expired_events, stream, write_pos, safe_pos, readonly, jerror,
                 head_expire, replay_r, already_replayed, submitted,
                 restarted, confvars, taskvars>>

\* lines 1496-1501: nothing is readable yet; the task asks to be woken and
\* waits on replay_cond, which gives up mds_lock for the wait
ReplayWaitReadable ==
  /\ replay_pc = "running" /\ jerror = 0
  /\ read_pos < write_pos
  /\ replay_pc' = "readable_wait"
  /\ mds_lock' = FALSE
  /\ UNCHANGED <<mds_state, debug_subtrees, capped, cur_event, segments,
                 expiring_segments, expired_segments, num_events,
                 expiring_events, expired_events, stream, write_pos, safe_pos,
                 read_pos, expire_pos, readonly, jerror, head_expire,
                 replay_r, already_replayed, submitted, dispatched, restarted,
                 confvars, taskvars>>

\* C_MDL_Replay signals replay_cond: the wait ends with mds_lock taken
\* again and an entry to read
ReplayReadable ==
  /\ replay_pc = "readable_wait" /\ jerror = 0
  /\ replay_pc' = "readable"
  /\ mds_lock' = TRUE
  /\ UNCHANGED <<mds_state, debug_subtrees, capped, cur_event, segments,
                 expiring_segments, expired_segments, num_events,
                 expiring_events, expired_events, stream, write_pos, safe_pos,
                 read_pos, expire_pos, readonly, jerror, head_expire,
                 replay_r, already_replayed, submitted, dispatched, restarted,
                 confvars, taskvars>>

\* the replay task reads an entry it cannot decode while corrupt events are
\* not to be skipped: the assertion of line 1570 fails and the process ends
ReplayCorruptAbort ==
  /\ replay_pc \in {"running", "readable"} /\ jerror = 0
  /\ read_pos < write_pos
  /\ decode(try_read_entry(stream, read_pos).bl) = NULL
  /\ ~mds_log_skip_corrupt_events
  /\ read_pos' = try_read_entry(stream, read_pos).next
  /\ replay_pc' = "aborted"
  /\ UNCHANGED <<mds_state, debug_subtrees, capped, cur_event, segments,
                 expiring_segments, expired_segments, num_events,
                 expiring_events, expired_events, stream, write_pos, safe_pos,
                 expire_pos, readonly, jerror, head_expire, replay_r,
                 already_replayed, submitted, dispatched, restarted, confvars,
                 recvars>>

\* what the journal head may hold when a standby re-reads it: the writer it
\* follows has trimmed up to some entry since (head_expire is the head as
\* this log has last written or read it at startup)
HeadChoices == {b \in Boundaries(stream) : head_expire <= b /\ expire_pos <= b}

\* the replay task finds the Journaler in error and ends
ReplayError ==
  /\ jerror # 0
  /\ IF rereads_head(ReplayState, jerror)
     THEN replay_pc = "reread_wait"
     ELSE replay_pc = "running"
  /\ \E head \in HeadChoices :
       LET rs == replay_error(ReplayState, jerror, head)
       IN /\ InstallReplay(rs)
          /\ replay_r' = {rs.r}
  /\ replay_pc' = "done"
  /\ mds_lock' = FALSE                          \* line 1618
  /\ UNCHANGED <<mds_state, debug_subtrees, capped, cur_event,
                 expiring_segments, expired_segments, expiring_events,
                 expired_events, stream, write_pos, safe_pos, readonly, jerror,
                 head_expire, already_replayed, submitted, restarted, confvars,
                 taskvars>>

\* lines 1516-1529: the task asks for the journal head to be read again,
\* gives up mds_lock and waits for the read
ReplayRereadHead ==
  /\ replay_pc = "running" /\ jerror # 0
  /\ rereads_head(ReplayState, jerror)
  /\ replay_pc' = "reread_wait"
  /\ mds_lock' = FALSE
  /\ UNCHANGED <<mds_state, debug_subtrees, capped, cur_event, segments,
                 expiring_segments, expired_segments, num_events,
                 expiring_events, expired_events, stream, write_pos, safe_pos,
                 read_pos, expire_pos, readonly, jerror, head_expire,
                 replay_r, already_replayed, submitted, dispatched, restarted,
                 confvars, taskvars>>

\* lines 1530-1535: the head cannot be read and the MDS ends itself
ReplayRereadFailed ==
  /\ replay_pc = "reread_wait"
  /\ replay_pc' = "suicide"
  /\ UNCHANGED <<mds_state, debug_subtrees, capped, cur_event, segments,
                 expiring_segments, expired_segments, num_events,
                 expiring_events, expired_events, stream, write_pos, safe_pos,
                 read_pos, expire_pos, readonly, jerror, head_expire,
                 replay_r, already_replayed, submitted, dispatched, restarted,
                 confvars, recvars>>

\* the replay task reaches write_pos and wakes the waiters
ReplayDone ==
  /\ replay_pc = "running" /\ jerror = 0
  /\ read_pos = write_pos
  /\ replay_pc' = "done"
  /\ replay_r' = {0}
  /\ mds_lock' = FALSE                          \* line 1618
  /\ UNCHANGED <<mds_state, debug_subtrees, capped, cur_event, segments,
                 expiring_segments, expired_segments, num_events,
                 expiring_events, expired_events, stream, write_pos, safe_pos,
                 read_pos, expire_pos, readonly, jerror, head_expire,
                 already_replayed, submitted, dispatched, restarted, confvars,
                 taskvars>>

\* a standby that has replayed to the end re-reads the journal head and
\* calls standby_trim_segments
StandbyTrim ==
  /\ readonly
  /\ replay_pc = "done" /\ replay_r = {0}
  /\ \E head \in HeadChoices :
       InstallReplay(standby_trim_segments(
                       [ReplayState EXCEPT !.expire_pos = head]))
  /\ UNCHANGED <<mds_state, debug_subtrees, capped, cur_event,
                 expiring_segments, expired_segments, expiring_events,
                 expired_events, stream, write_pos, safe_pos, readonly, jerror,
                 head_expire, replay_pc, replay_r, already_replayed, submitted,
                 restarted, confvars, recvars>>

\* the backend reports an error to the Journaler the replay task reads
BackendError ==
  /\ replay_pc \in {"running", "readable_wait"} /\ jerror = 0
  /\ jerror' \in {ENOENT, EINVAL, EIO}
  /\ replay_pc' = "running"      \* a task that waits is woken (line 1500)
  /\ mds_lock' = TRUE
  /\ UNCHANGED <<mds_state, debug_subtrees, capped, cur_event, segments,
                 expiring_segments, expired_segments, num_events,
                 expiring_events, expired_events, stream, write_pos, safe_pos,
                 read_pos, expire_pos, readonly, head_expire,
                 replay_r, already_replayed, submitted, dispatched, restarted,
                 confvars, taskvars>>

\* MDLog::append, when the MDS leaves replay
Append_ ==
  /\ is_any_replay
  /\ replay_pc # "running" /\ replay_r = {0}
  /\ read_pos' = write_pos
  /\ expire_pos' = write_pos
  /\ readonly' = FALSE
  /\ mds_state' \in {"resolve", "active"}
  /\ UNCHANGED <<debug_subtrees, capped, cur_event, segments,
                 expiring_segments, expired_segments, num_events,
                 expiring_events, expired_events, stream, write_pos, safe_pos,
                 jerror, head_expire, replay_pc, replay_r, already_replayed,
                 submitted, dispatched, restarted, confvars, recvars>>

\* the MDS finishes resolve
ResolveDone ==
  /\ is_resolve
  /\ mds_state' = "active"
  /\ UNCHANGED <<debug_subtrees, capped, cur_event, segments,
                 expiring_segments, expired_segments, num_events,
                 expiring_events, expired_events, stream, write_pos, safe_pos,
                 read_pos, expire_pos, readonly, jerror, head_expire, replay_pc,
                 replay_r, already_replayed, submitted, dispatched, restarted, confvars, recvars>>

\* The process ends (crash, respawn, shutdown) and a new one opens the
\* journal: a new MDLog, and a Journaler recovered from the head and from
\* what reached the journal (appends not yet safe may be lost).
Restart ==
  /\ ~restarted
  /\ \E b \in Boundaries(stream) :
       /\ safe_pos <= b
       /\ stream' = SubSeq(stream, 1, b)
       /\ write_pos' = b
       /\ safe_pos' = b
       /\ submitted' = SelectSeq(submitted, LAMBDA e : e.start_off < b)
  /\ read_pos' = head_expire
  /\ expire_pos' = head_expire
  /\ readonly' = TRUE
  /\ jerror' = 0
  /\ mds_state' = "replay"
  /\ capped' = FALSE
  /\ cur_event' = NULL
  /\ segments' = <<>>
  /\ expiring_segments' = {}
  /\ expired_segments' = {}
  /\ num_events' = 0 /\ expiring_events' = 0 /\ expired_events' = 0
  /\ replay_pc' = "idle" /\ replay_r' = {} /\ already_replayed' = FALSE
  /\ dispatched' = <<>>
  /\ restarted' = TRUE
  /\ UNCHANGED <<debug_subtrees, head_expire, confvars, recvars>>

\* ------------------------------------------------ recovery and reformat
nodeid == 0
MDS_INO_LOG_OFFSET == 512
MDS_INO_LOG_BACKUP_OFFSET == 768
\* g_conf->mds_journal_format, and the older stream format
mds_journal_format == 1
JOURNAL_FORMAT_LEGACY == 0
\* the envelope sentinel of the newer stream format
sentinel == 99

Inos == {MDS_INO_LOG_OFFSET + nodeid, MDS_INO_LOG_BACKUP_OFFSET + nodeid}

\* serialized events as the journals of the recovery hold them
Bls == { <<7>>, <<8, 9>> }

\* Journaler framing of one entry written at offset pos, by stream format
frame(fmt, bl, pos) ==
  IF fmt = JOURNAL_FORMAT_LEGACY THEN <<Len(bl)>> \o bl
  ELSE <<sentinel, Len(bl)>> \o bl \o <<pos>>

\* Journaler::append_entry on a journal of format fmt
j_append_entry(fmt, data, bl) == data \o frame(fmt, bl, Len(data))

\* Journaler::try_read_entry on a journal of format fmt, at offset pos
j_try_read_entry(fmt, data, pos) ==
  IF fmt = JOURNAL_FORMAT_LEGACY
  THEN [bl |-> SubSeq(data, pos + 2, pos + 1 + data[pos + 1]),
        next |-> pos + 1 + data[pos + 1]]
  ELSE [bl |-> SubSeq(data, pos + 3, pos + 2 + data[pos + 2]),
        next |-> pos + 3 + data[pos + 2]]

\* the entries of a journal from offset pos on, and the offsets they start at
RECURSIVE j_entries(_, _, _)
j_entries(fmt, data, pos) ==
  IF pos >= Len(data) THEN <<>>
  ELSE LET rd == j_try_read_entry(fmt, data, pos)
       IN <<rd.bl>> \o j_entries(fmt, data, rd.next)

RECURSIVE j_boundaries(_, _, _)
j_boundaries(fmt, data, pos) ==
  IF pos >= Len(data) THEN {pos}
  ELSE {pos} \cup j_boundaries(fmt, data, j_try_read_entry(fmt, data, pos).next)

RECURSIVE j_write(_, _, _)
j_write(fmt, data, bls) ==
  IF bls = <<>> THEN data
  ELSE j_write(fmt, j_append_entry(fmt, data, Head(bls)), Tail(bls))

NoJournal == [exists |-> FALSE, format |-> 0, data |-> <<>>, damaged |-> FALSE]
Journal(fmt, data) == [exists |-> TRUE, format |-> fmt, data |-> data, damaged |-> FALSE]

\* JournalPointer::save
jp_save(p) == pointer' = p

\* the task calls name with or without mds_lock
Call(locked, name) == IF locked THEN {} ELSE {name}

\* sequences over S of length at most n
SeqsUpTo(S, n) == UNION {[1..k -> S] : k \in 0..n}

\* the load that takes every pointer for an absent one
RLoad_reset ==
  /\ rpc = "start"
  /\ jp' = [front |-> MDS_INO_LOG_OFFSET + nodeid, back |-> 0]
  /\ jp_save(jp')
  /\ rpc' = "front_recover"
  /\ UNCHANGED <<journals, mds_lock, journaler, completion, task, erase_result,
                 crash_at, orig, unlocked_calls, logvars>>

\* _recovery_thread: load the pointer, or create it (lines 1263-1275)
RLoad ==
  /\ rpc = "start"
  /\ IF pointer = NULL
     THEN /\ jp' = [front |-> MDS_INO_LOG_OFFSET + nodeid, back |-> 0]
          /\ jp_save(jp')
     ELSE /\ jp' = pointer
          /\ UNCHANGED pointer
  /\ rpc' = IF jp'.back # 0 THEN "back_recover" ELSE "front_recover"
  /\ UNCHANGED <<journals, mds_lock, journaler, completion, task, erase_result,
                 crash_at, orig, unlocked_calls, logvars>>

\* lines 1286-1291: recover the back journal; the task issues the call under
\* the lock and waits without it
RBackRecover ==
  /\ rpc = "back_recover"
  /\ rpc' = "back_recover_wait"
  /\ mds_lock' = FALSE
  /\ unlocked_calls' = unlocked_calls \cup Call(TRUE, "recover")
  /\ UNCHANGED <<pointer, journals, jp, journaler, completion, task,
                 erase_result, crash_at, orig, logvars>>

\* lines 1295-1300: the recover has succeeded (a failure ends the process at
\* the assertion); erase the back journal
RBackErase ==
  /\ rpc = "back_recover_wait"
  /\ journals' = [journals EXCEPT ![jp.back].damaged = journals[jp.back].exists]
  /\ rpc' = "back_erase_wait"
  /\ mds_lock' = FALSE
  /\ unlocked_calls' = unlocked_calls \cup Call(TRUE, "erase")
  /\ UNCHANGED <<pointer, jp, journaler, completion, task, erase_result,
                 crash_at, orig, logvars>>

\* the erase ends and back is cleared in memory only
RBackErased_unsaved ==
  /\ rpc = "back_erase_wait"
  /\ \E res \in {0, ENOENT, EIO} :
       /\ res = 0 => journals[jp.back].exists
       /\ res = ENOENT => ~journals[jp.back].exists
       /\ erase_result' = {res}
       /\ IF res # 0 /\ res # ENOENT
          THEN UNCHANGED <<jp, pointer, journals>>
          ELSE /\ journals' = [journals EXCEPT ![jp.back] = NoJournal]
               /\ jp' = [jp EXCEPT !.back = 0]
               /\ UNCHANGED pointer
  /\ rpc' = "front_recover"
  /\ UNCHANGED <<mds_lock, journaler, completion, task, crash_at, orig, unlocked_calls, logvars>>

\* lines 1300-1312: the erase ends
RBackErased ==
  /\ rpc = "back_erase_wait"
  /\ \E res \in {0, ENOENT, EIO} :
       /\ res = 0 => journals[jp.back].exists
       /\ res = ENOENT => ~journals[jp.back].exists
       /\ erase_result' = {res}
       /\ IF res # 0 /\ res # ENOENT
          THEN UNCHANGED <<jp, pointer, journals>>
          ELSE /\ journals' = [journals EXCEPT ![jp.back] = NoJournal]
               /\ jp' = [jp EXCEPT !.back = 0]
               /\ jp_save(jp')
  /\ rpc' = "front_recover"
  /\ UNCHANGED <<mds_lock, journaler, completion, task, crash_at, orig, unlocked_calls, logvars>>

\* lines 1316-1323: recover the front journal
RFrontRecover ==
  /\ rpc = "front_recover"
  /\ rpc' = "front_recover_wait"
  /\ mds_lock' = FALSE
  /\ unlocked_calls' = unlocked_calls \cup Call(TRUE, "recover")
  /\ UNCHANGED <<pointer, journals, jp, journaler, completion, task,
                 erase_result, crash_at, orig, logvars>>

FrontReadable == journals[jp.front].exists /\ ~journals[jp.front].damaged

\* the end of the recover that installs the front journal in any format
RFrontRecovered_any_format ==
  /\ rpc = "front_recover_wait"
  /\ \E res \in {0, EIO} :
       /\ res = 0 => FrontReadable
       /\ IF res # 0
          THEN /\ completion' = {res}
               /\ unlocked_calls' =
                    unlocked_calls \cup Call(mds_lock, "complete")
               /\ rpc' = "done"
               /\ UNCHANGED journaler
          ELSE /\ journaler' = jp.front
               /\ completion' = {0}
               /\ unlocked_calls' =
                    unlocked_calls \cup Call(TRUE, "complete")
               /\ rpc' = "done"
  /\ mds_lock' = FALSE
  /\ UNCHANGED <<pointer, journals, jp, task, erase_result, crash_at, orig,
                 logvars>>

\* lines 1326-1348: the recover ends; complete with the error, install the
\* journal, or hand off to the reformat
RFrontRecovered ==
  /\ rpc = "front_recover_wait"
  /\ \E res \in {0, EIO} :
       /\ res = 0 => FrontReadable
       /\ IF res # 0
          THEN /\ completion' = {res}                  \* line 1328
               /\ unlocked_calls' =
                    unlocked_calls \cup Call(mds_lock, "complete")
               /\ rpc' = "done"
               /\ UNCHANGED journaler
          ELSE IF journals[jp.front].format >= mds_journal_format
          THEN /\ journaler' = jp.front
               /\ completion' = {0}                    \* lines 1338-1340
               /\ unlocked_calls' =
                    unlocked_calls \cup Call(TRUE, "complete")
               /\ rpc' = "done"
          ELSE /\ rpc' = "rf_save_back"
               /\ UNCHANGED <<journaler, completion, unlocked_calls>>
  /\ mds_lock' = FALSE
  /\ UNCHANGED <<pointer, journals, jp, task, erase_result, crash_at, orig,
                 logvars>>

\* _reformat_journal, lines 1365-1372: choose the back journal and persist
\* the pointer
FSaveBack ==
  /\ rpc = "rf_save_back"
  /\ jp' = [jp EXCEPT !.back = IF jp.front = MDS_INO_LOG_OFFSET + nodeid
                               THEN MDS_INO_LOG_BACKUP_OFFSET + nodeid
                               ELSE MDS_INO_LOG_OFFSET + nodeid]
  /\ jp_save(jp')
  /\ rpc' = "rf_create"
  /\ UNCHANGED <<journals, mds_lock, journaler, completion, task, erase_result,
                 crash_at, orig, unlocked_calls, logvars>>

\* lines 1375-1386: create the new journal in the configured format and
\* issue the write of its header
FCreate ==
  /\ rpc = "rf_create"
  /\ task' = [r |-> 0, read_pos |-> 0, new_journal |-> <<>>]
  /\ rpc' = "rf_write_head_wait"
  /\ mds_lock' = FALSE
  /\ unlocked_calls' = unlocked_calls \cup Call(TRUE, "write_head")
  /\ UNCHANGED <<pointer, journals, jp, journaler, completion, erase_result,
                 crash_at, orig, logvars>>

\* lines 1387-1397: the header is on disk; take the lock for the loop
FHeadWritten ==
  /\ rpc = "rf_write_head_wait"
  /\ journals' = [journals EXCEPT ![jp.back] = Journal(mds_journal_format, <<>>)]
  /\ rpc' = "rf_loop"
  /\ mds_lock' = TRUE
  /\ UNCHANGED <<pointer, jp, journaler, completion, task, erase_result,
                 crash_at, orig, unlocked_calls, logvars>>

\* the wait for the prefetch that keeps mds_lock
FWaitReadable_locked ==
  /\ rpc = "rf_loop"
  /\ task.read_pos < Len(journals[jp.front].data)
  /\ rpc' = "rf_readable_wait"
  /\ mds_lock' = TRUE
  /\ unlocked_calls' = unlocked_calls \cup Call(mds_lock, "wait_for_readable")
  /\ UNCHANGED <<pointer, journals, jp, journaler, completion, task,
                 erase_result, crash_at, orig, logvars>>

\* lines 1399-1411: nothing is readable yet; wait for the prefetch without
\* the lock
FWaitReadable ==
  /\ rpc = "rf_loop"
  /\ task.read_pos < Len(journals[jp.front].data)
  /\ rpc' = "rf_readable_wait"
  /\ mds_lock' = FALSE
  /\ unlocked_calls' = unlocked_calls \cup Call(mds_lock, "wait_for_readable")
  /\ UNCHANGED <<pointer, journals, jp, journaler, completion, task,
                 erase_result, crash_at, orig, logvars>>

\* the prefetch ends, with or without a read error (lines 1409-1416)
FReadable ==
  /\ rpc = "rf_readable_wait"
  /\ \E err \in {0, EIO} :
       IF err # 0
       THEN /\ task' = [task EXCEPT !.r = err]
            /\ rpc' = "rf_flush"
            /\ mds_lock' = FALSE
       ELSE /\ rpc' = "rf_loop"
            /\ mds_lock' = TRUE
            /\ UNCHANGED task
  /\ UNCHANGED <<pointer, journals, jp, journaler, completion, erase_result,
                 crash_at, orig, unlocked_calls, logvars>>

\* the turn of the loop that reads an entry and appends nothing
FTranscribe_drop ==
  /\ rpc = "rf_loop"
  /\ IF task.read_pos = Len(journals[jp.front].data)
     THEN /\ rpc' = "rf_flush"
          /\ mds_lock' = FALSE
          /\ UNCHANGED task
     ELSE LET old == journals[jp.front]
              rd == j_try_read_entry(old.format, old.data, task.read_pos)
          IN /\ task' = [task EXCEPT !.read_pos = rd.next]
             /\ rpc' = "rf_loop"
             /\ mds_lock' = TRUE
  /\ unlocked_calls' = unlocked_calls \cup Call(mds_lock, "append_entry")
  /\ UNCHANGED <<pointer, journals, jp, journaler, completion, erase_result,
                 crash_at, orig, logvars>>

\* lines 1418-1438: one turn of the loop with the lock held: leave at the
\* end of the old journal, or transcribe one entry
FTranscribe ==
  /\ rpc = "rf_loop"
  /\ IF task.read_pos = Len(journals[jp.front].data)
     THEN /\ rpc' = "rf_flush"
          /\ mds_lock' = FALSE
          /\ UNCHANGED task
     ELSE LET old == journals[jp.front]
              rd == j_try_read_entry(old.format, old.data, task.read_pos)
          IN /\ task' = [task EXCEPT
                           !.read_pos = rd.next,
                           !.new_journal =
                               j_append_entry(mds_journal_format, @, rd.bl)]
             /\ rpc' = "rf_loop"
             /\ mds_lock' = TRUE
  /\ unlocked_calls' = unlocked_calls \cup Call(mds_lock, "append_entry")
  /\ UNCHANGED <<pointer, journals, jp, journaler, completion, erase_result,
                 crash_at, orig, logvars>>

\* the flush issued together with the erase of the old journal
FFlush_erase_old ==
  /\ rpc = "rf_flush"
  /\ journals' = [journals EXCEPT ![jp.front].damaged = TRUE]
  /\ rpc' = "rf_flush_wait"
  /\ mds_lock' = FALSE
  /\ unlocked_calls' = unlocked_calls \cup Call(TRUE, "flush")
  /\ UNCHANGED <<pointer, jp, journaler, completion, task,
                 erase_result, crash_at, orig, logvars>>

\* lines 1441-1444: issue the flush of the new journal
FFlush ==
  /\ rpc = "rf_flush"
  /\ rpc' = "rf_flush_wait"
  /\ mds_lock' = FALSE
  /\ unlocked_calls' = unlocked_calls \cup Call(TRUE, "flush")
  /\ UNCHANGED <<pointer, journals, jp, journaler, completion, task,
                 erase_result, crash_at, orig, logvars>>

\* the flush ends and the pointer is flipped whatever r is
FFlushed_unchecked ==
  /\ rpc = "rf_flush_wait"
  /\ journals' = [journals EXCEPT ![jp.back].data = task.new_journal]
  /\ jp' = [front |-> jp.back, back |-> jp.front]
  /\ jp_save(jp')
  /\ rpc' = "rf_erase"
  /\ UNCHANGED <<mds_lock, journaler, completion, task, erase_result, crash_at,
                 orig, unlocked_calls, logvars>>

\* lines 1445-1456: the flush ends; with r != 0 the process dies at the
\* assertion, otherwise the pointer is flipped and persisted
FFlushed ==
  /\ rpc = "rf_flush_wait"
  /\ journals' = [journals EXCEPT ![jp.back].data = task.new_journal]
  /\ IF task.r # 0
     THEN /\ rpc' = "abort_transcribe"
          /\ UNCHANGED <<jp, pointer>>
     ELSE /\ jp' = [front |-> jp.back, back |-> jp.front]
          /\ jp_save(jp')
          /\ rpc' = "rf_erase"
  /\ UNCHANGED <<mds_lock, journaler, completion, task, erase_result, crash_at,
                 orig, unlocked_calls, logvars>>

\* lines 1459-1463: issue the erase of the old journal
FErase ==
  /\ rpc = "rf_erase"
  /\ journals' = [journals EXCEPT ![jp.back].damaged = TRUE]
  /\ rpc' = "rf_erase_wait"
  /\ mds_lock' = FALSE
  /\ unlocked_calls' = unlocked_calls \cup Call(TRUE, "erase")
  /\ UNCHANGED <<pointer, jp, journaler, completion, task, erase_result,
                 crash_at, orig, logvars>>

\* lines 1464-1471: the erase ends; a failure ends the process at the
\* assertion, otherwise back is cleared and the pointer persisted
FErased ==
  /\ rpc = "rf_erase_wait"
  /\ \E res \in {0, EIO} :
       IF res # 0
       THEN /\ rpc' = "abort_erase"
            /\ UNCHANGED <<journals, jp, pointer>>
       ELSE /\ journals' = [journals EXCEPT ![jp.back] = NoJournal]
            /\ jp' = [jp EXCEPT !.back = 0]
            /\ jp_save(jp')
            /\ rpc' = "rf_install"
  /\ UNCHANGED <<mds_lock, journaler, completion, task, erase_result, crash_at,
                 orig, unlocked_calls, logvars>>

\* lines 1475-1482: install the new journal and complete
FInstall ==
  /\ rpc = "rf_install"
  /\ journaler' = jp.front
  /\ completion' = {0}
  /\ rpc' = "done"
  /\ mds_lock' = FALSE
  /\ unlocked_calls' = unlocked_calls \cup Call(TRUE, "complete")
  /\ UNCHANGED <<pointer, journals, jp, task, erase_result, crash_at, orig,
                 logvars>>

\* the journals a dying process can leave behind: the entries appended to
\* the new journal reach the disk up to any entry boundary, and an erase in
\* flight has removed its journal or left it damaged
CrashJournals ==
  LET writing == rpc \in {"rf_loop", "rf_readable_wait", "rf_flush", "rf_flush_wait"}
      cuts == IF writing
              THEN j_boundaries(mds_journal_format, task.new_journal, 0)
              ELSE {0}
  IN { [i \in Inos |->
          IF writing /\ i = jp.back
          THEN [journals[i] EXCEPT !.data = SubSeq(task.new_journal, 1, b)]
          ELSE IF journals[i].damaged /\ gone THEN NoJournal
          ELSE journals[i]] : b \in cuts, gone \in BOOLEAN }

\* the process dies wherever the task is, and the next one starts the
\* recovery from what is persisted
Crash ==
  /\ rpc \notin {"off", "start"}
  /\ crash_at' = IF rpc = "done" /\ completion # {0} THEN "done_error" ELSE rpc
  /\ journals' \in CrashJournals
  /\ rpc' = "start"
  /\ jp' = NULL /\ task' = NULL /\ mds_lock' = FALSE /\ journaler' = 0
  /\ completion' = {} /\ erase_result' = {} /\ unlocked_calls' = {}
  /\ UNCHANGED <<pointer, orig, logvars>>

\* ------------------------------------------------------------------ Spec
RecIdle ==
  /\ pointer = NULL /\ journals = <<>> /\ rpc = "off" /\ jp = NULL
  /\ mds_lock = FALSE /\ journaler = 0 /\ completion = {} /\ task = NULL
  /\ erase_result = {} /\ crash_at = "none" /\ orig = NULL
  /\ unlocked_calls = {}

\* the log after MDLog::create
LogCreated ==
  /\ mds_state = "active"
  /\ debug_subtrees = FALSE
  /\ capped = FALSE
  /\ cur_event = NULL
  /\ segments = <<>>
  /\ expiring_segments = {} /\ expired_segments = {}
  /\ num_events = 0 /\ expiring_events = 0 /\ expired_events = 0
  /\ stream = <<>>
  /\ write_pos = 0 /\ safe_pos = 0 /\ read_pos = 0 /\ expire_pos = 0
  /\ readonly = FALSE
  /\ jerror = 0
  /\ head_expire = 0
  /\ replay_pc = "idle" /\ replay_r = {} /\ already_replayed = FALSE
  /\ restarted = FALSE
  /\ submitted = <<>> /\ dispatched = <<>>

\* the configuration of a default deployment
DefaultConf ==
  /\ mds_log_max_segments = 1
  /\ mds_log_skip_corrupt_events = FALSE
  /\ layout_period = 4

Init ==
  /\ DefaultConf
  /\ LogCreated
  /\ RecIdle

\* MDLog::open starts the recovery task over a pointer that is absent or
\* names one journal, of either stream format
InitRecovery ==
  /\ DefaultConf
  /\ LogCreated
  /\ \E front \in Inos, fmt \in {JOURNAL_FORMAT_LEGACY, mds_journal_format},
        bls \in SeqsUpTo(Bls, MaxEntries) :
       /\ pointer \in {[front |-> front, back |-> 0]}
                        \cup (IF front = MDS_INO_LOG_OFFSET + nodeid
                              THEN {NULL} ELSE {})
       /\ journals = [i \in Inos |->
                        IF i = front THEN Journal(fmt, j_write(fmt, <<>>, bls))
                        ELSE NoJournal]
       /\ orig = [front |-> front, entries |-> bls]
  /\ rpc = "start" /\ jp = NULL /\ mds_lock = FALSE /\ journaler = 0
  /\ completion = {} /\ task = NULL /\ erase_result = {} /\ crash_at = "none"
  /\ unlocked_calls = {}

Next ==
  \/ StartEntry
  \/ SubmitEntry
  \/ StartNewSegment
  \/ Flush
  \/ Cap
  \/ Trim
  \/ ExpiryComplete
  \/ Replay
  \/ ReplayEntry
  \/ ReplayRereadHead
  \/ ReplayError
  \/ ReplayDone
  \/ StandbyTrim
  \/ BackendError
  \/ Append_
  \/ ResolveDone
  \/ Restart

Spec == Init /\ [][Next]_vars

NextRecovery ==
  \/ RLoad
  \/ RBackRecover
  \/ RBackErase
  \/ RBackErased
  \/ RFrontRecover
  \/ RFrontRecovered
  \/ FSaveBack
  \/ FCreate
  \/ FHeadWritten
  \/ FWaitReadable
  \/ FReadable
  \/ FTranscribe
  \/ FFlush
  \/ FFlushed
  \/ FErase
  \/ FErased
  \/ FInstall
  \/ Crash

SpecRecovery == InitRecovery /\ [][NextRecovery]_vars

\* the writer alone, under either of two segment limits
InitTrim ==
  /\ mds_log_max_segments \in {1, 2}
  /\ mds_log_skip_corrupt_events = FALSE
  /\ layout_period = 4
  /\ LogCreated
  /\ RecIdle

NextTrim ==
  \/ StartEntry
  \/ SubmitEntry
  \/ StartNewSegment
  \/ Flush
  \/ Cap
  \/ Trim
  \/ ExpiryComplete

SpecTrim == InitTrim /\ [][NextTrim]_vars

\* the log of one node with mds_debug_subtrees set, under a layout period
\* the journal crosses and under one it does not
InitDebug ==
  /\ mds_log_max_segments = 1
  /\ mds_log_skip_corrupt_events = FALSE
  /\ layout_period \in {4, MaxPos + 1}
  /\ mds_state = "active"
  /\ debug_subtrees = TRUE
  /\ capped = FALSE
  /\ cur_event = NULL
  /\ segments = <<>>
  /\ expiring_segments = {} /\ expired_segments = {}
  /\ num_events = 0 /\ expiring_events = 0 /\ expired_events = 0
  /\ stream = <<>>
  /\ write_pos = 0 /\ safe_pos = 0 /\ read_pos = 0 /\ expire_pos = 0
  /\ readonly = FALSE
  /\ jerror = 0
  /\ head_expire = 0
  /\ replay_pc = "idle" /\ replay_r = {} /\ already_replayed = FALSE
  /\ restarted = FALSE
  /\ submitted = <<>> /\ dispatched = <<>>
  /\ RecIdle

\* the writer, a restart and the replay that follows it
NextDebug ==
  \/ StartEntry
  \/ SubmitEntry
  \/ StartNewSegment
  \/ Flush
  \/ Restart
  \/ Replay
  \/ ReplayEntry
  \/ ReplayDone
  \/ Append_
  \/ ResolveDone

SpecDebug == InitDebug /\ [][NextDebug]_vars

\* a journal to replay: the entries a writer has left, the first of them a
\* subtree map, of which one may have become undecodable
WrittenEntries ==
  {encode_with_header([type |-> ty, payload |-> pl, start_off |-> 0]) :
     ty \in {EVENT_SUBTREEMAP, EVENT_UPDATE}, pl \in Payloads}
    \cup {encode_with_header([type |-> EVENT_RESETJOURNAL, payload |-> <<>>,
                              start_off |-> 0])}

RECURSIVE Concat(_)
Concat(es) == IF es = <<>> THEN <<>> ELSE Head(es) \o Concat(Tail(es))

\* the entry with a type tag that LogEvent::decode does not know
Corrupted(bl) == [bl EXCEPT ![2] = 0]

ReplayJournals ==
  LET written ==
        {es \in UNION {[1..n -> WrittenEntries] : n \in 0..(MaxPos \div 2)} :
           /\ Len(Concat(es)) <= MaxPos
           /\ es # <<>> => decode(es[1]).type
                              \in {EVENT_SUBTREEMAP, EVENT_RESETJOURNAL}}
  IN {Concat(es) : es \in written}
       \cup {Concat([es EXCEPT ![c] = Corrupted(@)]) :
               es \in written \ {<<>>}, c \in 1..(MaxPos \div 2)}

\* the log of an MDS that opens such a journal for replay
InitReplay ==
  /\ mds_log_max_segments = 1
  /\ mds_log_skip_corrupt_events \in BOOLEAN
  /\ layout_period = 4
  /\ mds_state = "replay"
  /\ debug_subtrees = FALSE
  /\ capped = FALSE
  /\ cur_event = NULL
  /\ segments = <<>>
  /\ expiring_segments = {} /\ expired_segments = {}
  /\ num_events = 0 /\ expiring_events = 0 /\ expired_events = 0
  /\ stream \in ReplayJournals
  /\ write_pos = Len(stream) /\ safe_pos = Len(stream)
  /\ read_pos = 0 /\ expire_pos = 0
  /\ readonly = TRUE
  /\ jerror = 0
  /\ head_expire = 0
  /\ replay_pc = "idle" /\ replay_r = {} /\ already_replayed = FALSE
  /\ restarted = TRUE
  /\ submitted = <<>> /\ dispatched = <<>>
  /\ RecIdle

NextReplay ==
  \/ Replay
  \/ ReplayWaitReadable
  \/ ReplayReadable
  \/ ReplayEntry
  \/ ReplayCorruptAbort
  \/ BackendError
  \/ ReplayRereadHead
  \/ ReplayRereadFailed
  \/ ReplayError
  \/ ReplayDone
  \/ StandbyTrim

SpecReplay == InitReplay /\ [][NextReplay]_vars

\* the steps of the replay task itself
ReplayTask ==
  \/ ReplayWaitReadable
  \/ ReplayEntry
  \/ ReplayCorruptAbort
  \/ ReplayRereadHead
  \/ ReplayRereadFailed
  \/ ReplayError
  \/ ReplayDone

\* the background tasks of a node: the recovery and reformat of a journal,
\* or the replay of one
InitTasks == InitRecovery \/ InitReplay

NextTasks ==
  \/ RLoad
  \/ RBackRecover
  \/ RBackErase
  \/ RBackErased
  \/ RFrontRecover
  \/ RFrontRecovered
  \/ FSaveBack
  \/ FCreate
  \/ FHeadWritten
  \/ FWaitReadable
  \/ FReadable
  \/ FTranscribe
  \/ FFlush
  \/ FFlushed
  \/ FErase
  \/ FErased
  \/ FInstall
  \/ Crash
  \/ Replay
  \/ ReplayWaitReadable
  \/ ReplayReadable
  \/ ReplayEntry
  \/ ReplayCorruptAbort
  \/ BackendError
  \/ ReplayRereadHead
  \/ ReplayRereadFailed
  \/ ReplayError
  \/ ReplayDone
  \/ StandbyTrim

SpecTasks == InitTasks /\ [][NextTasks]_vars

\* the replay of SpecReplay with a task that is scheduled while it can take
\* a step and a backend that ends the wait for readability
SpecReplayFair ==
  /\ InitReplay
  /\ [][NextReplay]_vars
  /\ WF_vars(ReplayTask)
  /\ WF_vars(ReplayReadable)


\* ================================================================ claims
\* the events a replay from offset pos on is to dispatch
SubmittedFrom(pos) == SelectSeq(submitted, LAMBDA e : e.start_off >= pos)

\* a replay has run to the end of the journal without error and the log is
\* still the read-only one it replayed into
ReplayComplete == readonly /\ replay_pc = "done" /\ replay_r = {0}

\* C1: when a replay of the journal has run to its end, the events it has
\* dispatched are the submitted events of the stream it read, in submission
\* order, each with the type, the payload and the start_off of its submit.
C1_ReplayRoundTrip ==
  ReplayComplete => dispatched = SubmittedFrom(head_expire)

\* C1 witness: a replay has dispatched a subtree map and a caller's event
\* with a payload.
C1_Witness ==
  /\ ReplayComplete
  /\ Len(dispatched) >= 2
  /\ \E i \in 1..Len(dispatched) :
       dispatched[i].type = EVENT_UPDATE /\ dispatched[i].payload # <<>>
       /\ dispatched[i].start_off > 0

\* sum of num_events over the segments of the index
RECURSIVE SumEvents(_, _)
SumEvents(segs, K) ==
  IF K = {} THEN 0
  ELSE LET k == CHOOSE x \in K : TRUE
       IN segs[k].num_events + SumEvents(segs, K \ {k})

\* C2: the log's num_events equals the sum of num_events over the segments
\* of the index, in every reachable state.
C2_EventCount == num_events = SumEvents(segments, DOMAIN segments)

\* C2 failing state: a standby has dropped replayed segments and still
\* counts their events.
C2_Diverged ==
  /\ readonly /\ DOMAIN segments = {} /\ num_events > 0

\* the steps of the reformat at which the pointer names a back journal and
\* the front journal is still the one the reformat started from
BeforeSwap ==
  {"rf_create", "rf_write_head_wait", "rf_loop", "rf_readable_wait",
   "rf_flush", "rf_flush_wait", "abort_transcribe"}

\* the steps of the reformat between the first save of the pointer and the
\* last
DuringReformat == BeforeSwap \cup {"rf_erase", "rf_erase_wait", "abort_erase"}

\* the journal the persisted pointer names as front is whole and holds the
\* entries of the original front journal
FrontComplete ==
  LET j == journals[pointer.front]
  IN /\ j.exists /\ ~j.damaged
     /\ j_entries(j.format, j.data, 0) = orig.entries

\* the front is the original journal, untouched
FrontUnchanged ==
  /\ pointer.front = orig.front
  /\ journals[pointer.front] =
       Journal(JOURNAL_FORMAT_LEGACY,
               j_write(JOURNAL_FORMAT_LEGACY, <<>>, orig.entries))

\* C3: whenever a pointer is persisted, and so after any crash during the
\* reformat and the recovery that follows it, the journal it names as front
\* holds the complete entry sequence of the original front journal; a
\* partially transcribed journal is never the front.
C3_FrontAlwaysComplete == pointer # NULL => FrontComplete

\* C3 witness: the process died during a reformat, the next recovery has
\* completed and installed the front journal, in the new format, with all
\* the entries of the original.
C3_Witness ==
  /\ crash_at \in DuringReformat
  /\ rpc = "done" /\ completion = {0}
  /\ journaler = pointer.front
  /\ journals[pointer.front].format = mds_journal_format
  /\ Len(orig.entries) = MaxEntries

\* C4 as stated: after a crash before the swap, the recovery's clean-up
\* leaves back cleared in the persisted pointer, the back journal erased
\* and the front as it was.
C4_Original ==
  (crash_at \in BeforeSwap /\ rpc = "front_recover")
    => /\ pointer.back = 0
       /\ \A i \in Inos \ {pointer.front} : ~journals[i].exists
       /\ FrontUnchanged

\* C4 amended: after a crash before the swap, the recovery's clean-up leaves
\* the front as it was; when the erase reports success or ENOENT the back
\* journal is gone and back is cleared in the persisted pointer, and when
\* it reports another error the pointer is left as it was, back still set.
C4_CleanupAfterCrash ==
  (crash_at \in BeforeSwap /\ rpc = "front_recover")
    => /\ FrontUnchanged
       /\ jp = pointer
       /\ IF erase_result \subseteq {0, ENOENT}
          THEN /\ pointer.back = 0
               /\ \A i \in Inos \ {pointer.front} : ~journals[i].exists
          ELSE pointer.back \in Inos \ {pointer.front}

\* C4 witness: the process died while transcribing, and the next recovery
\* has erased the back journal and cleared back.
C4_Witness ==
  /\ crash_at \in {"rf_loop", "rf_flush_wait"}
  /\ rpc = "front_recover"
  /\ erase_result = {0}
  /\ pointer.back = 0
  /\ orig.entries # <<>>

\* C5: while the log is uncapped, the segment with the greatest key is not
\* in the expired set.
C5_CurrentNotExpired ==
  (~capped /\ have_any_segments(segments))
    => get_current_segment(segments) \notin expired_segments

\* C5 witness: the log is uncapped, older segments have expired, and an
\* expiry of the current segment has been tried and declined.
C5_Witness ==
  /\ ~capped /\ Cardinality(DOMAIN segments) >= 2
  /\ expired_segments # {}
  /\ segments[get_current_segment(segments)].end <= safe_pos
  /\ get_current_segment(segments) \notin expiring_segments

\* C6: the expiring set and the expired set are disjoint.
C6_Disjoint == expiring_segments \cap expired_segments = {}

\* C6 witness: both sets hold a segment at once.
C6_Witness == expiring_segments # {} /\ expired_segments # {}

C8_ExpireMonotonic == [][expire_pos' >= expire_pos]_vars

\* C8 witness: after append() has put expire_pos at the end of the journal,
\* a trim has removed a segment that the replay had loaded below it.
C8_Witness ==
  /\ restarted /\ ~readonly
  /\ dispatched # <<>>
  /\ DOMAIN segments # {}
  /\ dispatched[1].start_off < get_oldest_segment(segments)
  /\ dispatched[1].start_off < expire_pos

\* C9 as stated: expire_pos <= read_pos <= safe_pos <= write_pos in every
\* reachable state.
C9_Original ==
  expire_pos <= read_pos /\ read_pos <= safe_pos /\ safe_pos <= write_pos

\* C9 amended: expire_pos and read_pos are both at most safe_pos, which is
\* at most write_pos; on a log that writes, expire_pos passes read_pos.
C9_Positions ==
  expire_pos <= safe_pos /\ read_pos <= safe_pos /\ safe_pos <= write_pos

\* C9 witness: the writer has trimmed a segment and expire_pos lies beyond
\* read_pos.
C9_Witness == ~readonly /\ read_pos < expire_pos /\ expire_pos <= safe_pos

\* C10: a trim that removes segments and leaves some leaves expire_pos at
\* the offset of the oldest segment that survives.
C10_ExpireAtOldest ==
  [][(/\ ~readonly
      /\ DOMAIN segments' # {}
      /\ DOMAIN segments' # DOMAIN segments
      /\ DOMAIN segments' \subseteq DOMAIN segments)
       => expire_pos' = get_oldest_segment(segments')]_vars

\* C11: when start_new_segment returns, called by a caller or by the
\* rotation of submit_entry, the segment it has created holds exactly one
\* event, the subtree map journalled at the segment's offset.
C11_NewSegmentHoldsMap ==
  [][~readonly' =>
       \A k \in DOMAIN segments' \ DOMAIN segments :
          /\ segments'[k].num_events = 1
          /\ segments'[k].end = write_pos'
          /\ decode(try_read_entry(stream', k).bl).type = EVENT_SUBTREEMAP
          /\ try_read_entry(stream', k).next = write_pos']_vars

\* C11 witness: a segment opened after another one holds one event and ends
\* at the write position.
C11_Witness ==
  /\ ~readonly /\ Cardinality(DOMAIN segments) >= 2
  /\ segments[get_current_segment(segments)].num_events = 1
  /\ segments[get_current_segment(segments)].end = write_pos
  /\ get_current_segment(segments) < write_pos

\* the submitted events have strictly increasing start offsets
StartOffsIncrease ==
  \A i, j \in 1..Len(submitted) :
     i < j => submitted[i].start_off < submitted[j].start_off

\* C12: the start_off of a submitted event never changes, and it is
\* strictly less than the start_off of every event submitted after it.
C12_StartOffFixedAndIncreasing ==
  /\ []StartOffsIncrease
  /\ [][\A i \in 1..Len(submitted') :
           i <= Len(submitted) => submitted'[i] = submitted[i]]_vars

\* C12 witness: three events have been submitted, a caller's event between
\* two subtree maps.
C12_Witness ==
  /\ Len(submitted) >= 3
  /\ submitted[2].type = EVENT_UPDATE
  /\ submitted[3].start_off > submitted[2].start_off

\* C13: when a reformat completes, the installed journal is the one the
\* pointer names as front, it has the configured format, front is the inode
\* the reformat chose as back, back is 0, the old journal is gone, and
\* reading the journal yields the entries of the old journal in order.
C13_ReformatRoundTrip ==
  (rpc = "done" /\ task # NULL)
    => /\ completion = {0}
       /\ journaler = pointer.front
       /\ pointer.front \in Inos \ {orig.front}
       /\ pointer.back = 0
       /\ journals[journaler] =
            Journal(mds_journal_format,
                    j_write(mds_journal_format, <<>>, orig.entries))
       /\ j_entries(mds_journal_format, journals[journaler].data, 0)
            = orig.entries
       /\ ~journals[orig.front].exists

\* C13 witness: a reformat of a journal of two different entries has
\* completed.
C13_Witness ==
  /\ rpc = "done" /\ task # NULL
  /\ Len(orig.entries) = MaxEntries
  /\ orig.entries[1] # orig.entries[MaxEntries]
  /\ journals[pointer.front].format = mds_journal_format

ManyFlushedSegments ==
  /\ ~readonly
  /\ Cardinality(DOMAIN segments) > mds_log_max_segments
  /\ \A k \in DOMAIN segments : segments[k].end <= safe_pos
  /\ expiring_segments = {}

\* the index a trim() without event limit leaves when no expiry finds
\* outstanding work and there is time for budget turns of the loop
TrimmedIndex(budget) == DOMAIN trim(TrimState, -1, {}, budget).segments

\* C16 as stated: a trim() without event limit, over more than N flushed
\* segments with no expiry work outstanding, leaves at most N + 1 segments.
C16_Original ==
  ManyFlushedSegments =>
    \A budget \in {0, 1, Cardinality(DOMAIN segments)} :
       Cardinality(TrimmedIndex(budget)) <= mds_log_max_segments + 1

\* C16 amended: a trim() that its two-second budget does not cut short,
\* without event limit, over more than N flushed segments with no expiry
\* work outstanding, leaves at most N + 1 segments.
C16_TrimToLimit ==
  ManyFlushedSegments =>
    /\ Cardinality(TrimmedIndex(Cardinality(DOMAIN segments)))
         <= mds_log_max_segments + 1
    /\ TrimmedIndex(Cardinality(DOMAIN segments)) # DOMAIN segments

\* C16 witness: with a limit of one segment, three segments were opened and
\* flushed and a trim has left the last one alone in the index.
C16_Witness ==
  /\ mds_log_max_segments = 1 /\ ~capped
  /\ Cardinality(DOMAIN segments) = 1
  /\ Len(SelectSeq(submitted, LAMBDA e : e.type = EVENT_SUBTREEMAP)) >= 3
  /\ expiring_segments = {} /\ expired_segments = {}

\* every segment of the index t is the current one, is not flushed, or is
\* expiring or expired
AllSegmentsAccounted(t) ==
  \A k \in DOMAIN t.segments :
     \/ k = get_current_segment(t.segments)
     \/ t.segments[k].end > safe_pos
     \/ k \in t.expiring \cup t.expired

\* the limits of a trim(m) are exceeded in t
OverLimits(t, m) ==
  over_limits(t, IF m >= 0 THEN m ELSE mds_log_max_events)

\* the results of the trims that neither the time budget nor max_expiring
\* stops
UnstoppedTrims(m) ==
  {t \in {trim(TrimState, m, subs, Cardinality(DOMAIN segments)) :
            subs \in SUBSET ExpireCandidates} :
     Cardinality(t.expiring) < mds_log_max_expiring}

\* C17 as stated: after a trim() that neither its time budget nor
\* max_expiring has stopped, every segment of the index is the current
\* one, is not flushed, or is expiring or expired.
C17_Original ==
  ~readonly =>
    \A m \in {-1, 0} : \A t \in UnstoppedTrims(m) : AllSegmentsAccounted(t)

\* C17 amended: after a trim() that neither its time budget nor
\* max_expiring has stopped, the limits are no longer exceeded, or every
\* segment of the index is the current one, is not flushed, or is expiring
\* or expired.
C17_TrimConverges ==
  ~readonly =>
    \A m \in {-1, 0} : \A t \in UnstoppedTrims(m) :
       ~OverLimits(t, m) \/ AllSegmentsAccounted(t)

\* C17 witness: with a limit of two segments a trim has removed the oldest
\* of three flushed segments and left a flushed one that is not current.
C17_Witness ==
  /\ mds_log_max_segments = 2 /\ ~capped
  /\ Cardinality(DOMAIN segments) = 2
  /\ get_oldest_segment(segments) > 0
  /\ segments[get_oldest_segment(segments)].end <= safe_pos
  /\ expiring_segments = {} /\ expired_segments = {}

\* the events of the entries of st from pos on that can be decoded, each
\* with its offset; those read before a segment is open are left out unless
\* open
RECURSIVE EventsFrom(_, _, _)
EventsFrom(st, pos, open) ==
  IF pos >= Len(st) THEN <<>>
  ELSE LET rd == try_read_entry(st, pos)
           le == decode(rd.bl)
       IN IF le = NULL THEN EventsFrom(st, rd.next, open)
          ELSE LET opens == le.type \in {EVENT_SUBTREEMAP, EVENT_RESETJOURNAL}
               IN (IF open \/ opens
                   THEN <<[le EXCEPT !.start_off = pos]>> ELSE <<>>)
                    \o EventsFrom(st, rd.next, open \/ opens)

\* the offsets of the entries that cannot be decoded
CorruptOffsets ==
  {b \in Boundaries(stream) \ {Len(stream)} :
     decode(try_read_entry(stream, b).bl) = NULL}

FirstCorrupt == Min(CorruptOffsets \cup {Len(stream)})

\* an entry that cannot be decoded is neither counted nor attached to a
\* segment, and opens none
CorruptNotCounted ==
  /\ num_events = Len(dispatched)
  /\ DOMAIN segments \cap CorruptOffsets = {}
  /\ \A k \in DOMAIN segments :
       segments[k].num_events =
         Cardinality({i \in 1..Len(dispatched) :
                        /\ k <= dispatched[i].start_off
                        /\ dispatched[i].start_off < segments[k].end})

\* without skipping, replay ends at the first entry that cannot be decoded
AbortsAtCorrupt ==
  /\ \A i \in 1..Len(dispatched) : dispatched[i].start_off < FirstCorrupt
  /\ read_pos > FirstCorrupt => replay_pc = "aborted"
  /\ replay_pc = "aborted" =>
       dispatched = SelectSeq(EventsFrom(stream, 0, FALSE),
                              LAMBDA e : e.start_off < FirstCorrupt)

\* C18 as stated: with skip-corrupt enabled an entry that cannot be decoded
\* is skipped, not counted and not attached, and a replay that completes
\* has replayed every other event in order; with skip-corrupt disabled
\* replay aborts at that entry and replays no later event.
C18_Original ==
  IF mds_log_skip_corrupt_events
  THEN /\ CorruptNotCounted
       /\ (replay_pc = "done" /\ replay_r = {0})
            => dispatched = EventsFrom(stream, 0, TRUE)
  ELSE AbortsAtCorrupt

\* C18 amended: with skip-corrupt enabled an entry that cannot be decoded
\* is skipped, not counted and not attached, and a replay that completes
\* has replayed in order every other event read once a segment was open;
\* with skip-corrupt disabled replay aborts at that entry and replays no
\* later event.
C18_SkipOrAbort ==
  IF mds_log_skip_corrupt_events
  THEN /\ CorruptNotCounted
       /\ (replay_pc = "done" /\ replay_r = {0})
            => dispatched = EventsFrom(stream, 0, FALSE)
  ELSE AbortsAtCorrupt

\* C18 witness: a replay that skips has completed over a journal with an
\* undecodable entry between two events, both of them replayed.
C18_Witness ==
  /\ mds_log_skip_corrupt_events
  /\ replay_pc = "done" /\ replay_r = {0}
  /\ \E c \in CorruptOffsets : \E i \in 1..Len(dispatched) - 1 :
       dispatched[i].start_off < c /\ c < dispatched[i + 1].start_off

\* a replay that does not skip has aborted at an undecodable entry with
\* events before it replayed and events after it in the journal
C18_Aborted ==
  /\ ~mds_log_skip_corrupt_events
  /\ replay_pc = "aborted"
  /\ dispatched # <<>>
  /\ read_pos < write_pos

\* the log after standby_trim_segments, the journal head holding head
StandbyTrimmed(head) ==
  standby_trim_segments([ReplayState EXCEPT !.expire_pos = head])

\* C19: standby_trim_segments removes exactly the segments that end at or
\* before the journal's expire_pos, leaves the others as they are, and asks
\* the cache to trim iff it has removed a segment.
C19_StandbyTrimExact ==
  readonly =>
    \A head \in HeadChoices :
       LET kept == {k \in DOMAIN segments : segments[k].end > head}
       IN /\ DOMAIN StandbyTrimmed(head).segments = kept
          /\ \A k \in kept : StandbyTrimmed(head).segments[k] = segments[k]
          /\ StandbyTrimmed(head).cache_trim <=> kept # DOMAIN segments

\* C19 witness: a standby that replayed three segments has trimmed to a
\* head inside the journal; the oldest segments are gone, the last is kept.
C19_Witness ==
  /\ readonly /\ replay_pc = "done" /\ replay_r = {0}
  /\ expire_pos > 0 /\ expire_pos < write_pos
  /\ Len(SelectSeq(dispatched, LAMBDA e : e.type = EVENT_SUBTREEMAP)) = 3
  /\ DOMAIN segments = {expire_pos}

\* each key is the offset of its segment, and the key under which the next
\* segment would be filed (the write position of a writer, the read
\* position of a replay) is not in the index
KeysAreOffsets ==
  /\ \A k \in DOMAIN segments : segments[k].offset = k
  /\ ~readonly => write_pos \notin DOMAIN segments
  /\ (replay_pc = "running" /\ read_pos < write_pos)
       => read_pos \notin DOMAIN segments

\* a segment that stays in the index is not exchanged for a new one
SegmentsKept ==
  \A k \in DOMAIN segments \cap DOMAIN segments' :
     /\ segments'[k].num_events >= segments[k].num_events
     /\ segments'[k].end >= segments[k].end

\* C20: the keys of the index are the offsets of the segments stored under
\* them (and so strictly increasing with the segments), and no rotation and
\* no replayed event files a segment under a key that is already in use.
C20_KeysAreOffsets == []KeysAreOffsets /\ [][SegmentsKept]_vars

\* C20 witness: a writer has rotated to a second segment after events went
\* to the first.
C20_Witness ==
  /\ ~readonly
  /\ Cardinality(DOMAIN segments) = 2
  /\ segments[get_oldest_segment(segments)].num_events >= 2
  /\ segments[get_current_segment(segments)].num_events >= 1

\* the index a replay has after it read the entry at offset k with no
\* segment open
ReplayedAt(k) ==
  replay_entry([ReplayState EXCEPT !.read_pos = k, !.segments = <<>>]).segments

\* C21: the entry of the journal at the offset of a segment of the writer is
\* a SUBTREE_MAP event, and a replay that reads it opens a segment at that
\* offset.
C21_SegmentStartsWithMap ==
  ~readonly =>
    \A k \in DOMAIN segments :
       /\ k \in Boundaries(stream) /\ k < Len(stream)
       /\ decode(try_read_entry(stream, k).bl) # NULL
       /\ decode(try_read_entry(stream, k).bl).type = EVENT_SUBTREEMAP
       /\ DOMAIN ReplayedAt(k) = {k}

\* C21 witness: a writer holds three segments.
C21_Witness ==
  /\ ~readonly
  /\ Cardinality(DOMAIN segments) = 3
  /\ \A k \in DOMAIN segments : segments[k].num_events = 1

\* the persisted pointer names the new journal as front
Swapped == pointer # NULL /\ pointer.front # orig.front

\* the reformat has met a read error in the old journal
ReadFailed == task # NULL /\ task.r # 0

ReformatOrder ==
  /\ Swapped =>
       journals[pointer.front] =
         Journal(mds_journal_format,
                 j_write(mds_journal_format, <<>>, orig.entries))
  /\ (journals[orig.front].damaged \/ ~journals[orig.front].exists) => Swapped
  /\ ReadFailed => (pointer # NULL /\ ~Swapped /\ pointer.back # 0)
  /\ (crash_at = "abort_transcribe" /\ rpc = "start")
       => (pointer # NULL /\ ~Swapped /\ pointer.back # 0)

\* C22: the persisted pointer names the new journal as front only when the
\* new journal holds, flushed, every entry of the old one; the old journal
\* is erased only when the swapped pointer is persisted; after a read error
\* the pointer is not written again and back stays non-zero for the next
\* startup.
C22_SwapAfterFlush ==
  []ReformatOrder /\ [][ReadFailed => pointer' = pointer]_vars

\* C22 witness: the reformat has persisted the swapped pointer and the
\* erase of the old journal is under way.
C22_Witness ==
  /\ rpc = "rf_erase_wait"
  /\ Swapped /\ pointer.back = orig.front
  /\ journals[orig.front].damaged
  /\ Len(orig.entries) = MaxEntries

\* the reformat has met a read error and the process has died at the
\* assertion, the pointer still naming the new journal as back
C22_ReadErrorAbort ==
  /\ rpc = "abort_transcribe"
  /\ ReadFailed /\ pointer.back # 0 /\ ~Swapped

\* C23: a segment in the expired set has end <= safe_pos, and a segment
\* the trimmer removes from the index has end <= safe_pos when it goes.
C23_ExpiredAreFlushed ==
  /\ [](\A ls \in expired_segments : segments[ls].end <= safe_pos)
  /\ [][~readonly =>
          \A k \in DOMAIN segments \ DOMAIN segments' :
             segments[k].end <= safe_pos]_vars

\* C24: expiring_events is the sum of num_events over the segments of the
\* expiring set and expired_events the sum over those of the expired set,
\* in every reachable state.
C24_ExpiryCounters ==
  /\ expiring_events = SumEvents(segments, expiring_segments)
  /\ expired_events = SumEvents(segments, expired_segments)

\* the events a caller may hold, stamped with any offset
StampedEvents ==
  {[e EXCEPT !.start_off = o] : e \in CallerEvents, o \in 0..MaxPos}

\* the log accepts submits: not in replay, a segment is open, not capped
CanSubmit == ~is_any_replay /\ DOMAIN segments # {} /\ ~capped

\* C25: start_entry fails while an entry is in progress, submit_entry fails
\* for an event that is not the entry in progress, and the submit of the
\* entry in progress does not fail, whatever rotation or debug injection it
\* nests, and leaves no entry in progress.
C25_OneEntryAtATime ==
  /\ cur_event # NULL =>
       \A e \in CallerEvents : start_entry(WriteState, e).failed
  /\ \A le \in StampedEvents \ {cur_event}, maps \in MapChoices :
       submit_entry(WriteState, le, maps).failed
  /\ (cur_event # NULL /\ CanSubmit) =>
       \A maps \in MapChoices :
          /\ ~submit_entry(WriteState, cur_event, maps).failed
          /\ submit_entry(WriteState, cur_event, maps).cur_event = NULL

\* C25 witness: a submit has injected a SUBTREEMAP_TEST event and a further
\* entry is in progress.
C25_Witness ==
  /\ cur_event # NULL /\ CanSubmit
  /\ \E i \in 1..Len(submitted) : submitted[i].type = EVENT_SUBTREEMAP_TEST

\* the events a call has journalled, s being the log it leaves
Journalled(s) == (Len(submitted) + 1)..Len(s.submitted)

\* the offset after the i-th journalled event
EndOf(s, i) ==
  IF i < Len(s.submitted) THEN s.submitted[i + 1].start_off ELSE Len(s.stream)

\* rotation is suppressed after this event
Suppressed(e) ==
  \/ e.type = EVENT_SUBTREEMAP
  \/ e.type = EVENT_IMPORTFINISH /\ is_resolve

\* each segment the call has started beyond those of started lies after an
\* event it has journalled, and after each such event a segment is started
\* exactly when rotation is not suppressed and the offset after the event
\* is in another period than the offset of the last segment
RotationRule(s, started) ==
  LET new == (DOMAIN s.segments \ DOMAIN segments) \ started
  IN /\ new \subseteq {EndOf(s, i) : i \in Journalled(s)}
     /\ \A i \in Journalled(s) :
          LET pos == EndOf(s, i)
              last_seg == Max({k \in DOMAIN s.segments : k < pos})
          IN IF Suppressed(s.submitted[i]) THEN pos \notin new
             ELSE pos \in new <=>
                    pos \div layout_period # last_seg \div layout_period

\* C26: each submit_entry of an event that is neither a SUBTREE_MAP nor an
\* IMPORT_FINISH during resolve starts a segment at the offset after the
\* event iff that offset and the offset of the last segment are in
\* different layout periods; a submit_entry of a SUBTREE_MAP or of an
\* IMPORT_FINISH during resolve starts none.
C26_RotationRule ==
  /\ (cur_event # NULL /\ CanSubmit) =>
       \A maps \in MapChoices :
          RotationRule(submit_entry(WriteState, cur_event, maps), {})
  /\ (cur_event = NULL /\ ~is_any_replay /\ ~capped) =>
       \A maps \in MapChoices :
          RotationRule(start_new_segment(WriteState, maps), {write_pos})

\* C26 witness: during resolve an IMPORT_FINISH has been journalled up to a
\* period boundary and no segment starts there.
C26_Witness ==
  /\ is_resolve /\ layout_period <= MaxPos
  /\ write_pos = layout_period
  /\ submitted # <<>>
  /\ submitted[Len(submitted)].type = EVENT_IMPORTFINISH
  /\ submitted[Len(submitted)].start_off < write_pos
  /\ write_pos \notin DOMAIN segments

\* a submit of an update has ended in another period and a segment starts
\* where it ended
C26_Rotated ==
  /\ ~readonly
  /\ \E i \in 1..Len(submitted) - 1 :
       /\ submitted[i].type = EVENT_UPDATE
       /\ submitted[i + 1].start_off \in DOMAIN segments

\* a subtree map larger than a layout period
LargeMap == [i \in 1..(MaxPos + 2) |-> 7]

\* the subtree maps a call may be given, large ones among them
LargeMapChoices == [1..2 -> Payloads \cup {LargeMap}]

\* the events of a type among those a call has journalled
JournalledOf(s, type) == {i \in Journalled(s) : s.submitted[i].type = type}

\* the call has journalled at most its own event, one injected
\* SUBTREEMAP_TEST event and one subtree map, and has started at most one
\* segment, none after a subtree map
NestingBounded(s, own) ==
  /\ ~s.failed
  /\ Cardinality(Journalled(s)) <= own + 2
  /\ Cardinality(JournalledOf(s, EVENT_SUBTREEMAP_TEST)) <= 1
  /\ Cardinality(JournalledOf(s, EVENT_SUBTREEMAP)) <= 1
  /\ Cardinality(DOMAIN s.segments \ DOMAIN segments) <= 1
  /\ \A i \in JournalledOf(s, EVENT_SUBTREEMAP) :
       /\ i = Len(s.submitted)
       /\ Len(s.stream) \notin DOMAIN s.segments

\* C27: a submit_entry or start_new_segment returns after a bounded nesting
\* of submits: the subtree map of a rotation starts no further segment,
\* however large it is, and an injected SUBTREEMAP_TEST event injects no
\* further one.
C27_SubmitTerminates ==
  /\ (cur_event # NULL /\ CanSubmit) =>
       \A maps \in LargeMapChoices :
          NestingBounded(submit_entry(WriteState, cur_event, maps), 1)
  /\ (cur_event = NULL /\ ~is_any_replay /\ ~capped) =>
       \A maps \in LargeMapChoices :
          NestingBounded(start_new_segment(WriteState, maps), 0)

\* C27 witness: the subtree map of a new segment has crossed a period
\* boundary and no further segment starts after it.
C27_Witness ==
  /\ ~readonly /\ cur_event = NULL /\ submitted # <<>>
  /\ submitted[Len(submitted)].type = EVENT_SUBTREEMAP
  /\ submitted[Len(submitted)].start_off \div layout_period
       # write_pos \div layout_period
  /\ get_current_segment(segments) = submitted[Len(submitted)].start_off

\* the i-th journalled event is followed by a SUBTREEMAP_TEST event
FollowedByTest(s, i) ==
  i < Len(s.submitted) /\ s.submitted[i + 1].type = EVENT_SUBTREEMAP_TEST

\* the replay task is about to read a SUBTREEMAP_TEST event
AtTestEvent ==
  /\ replay_pc = "running" /\ read_pos < write_pos
  /\ decode(try_read_entry(stream, read_pos).bl) # NULL
  /\ decode(try_read_entry(stream, read_pos).bl).type = EVENT_SUBTREEMAP_TEST

\* replay of a SUBTREEMAP_TEST event inserts no segment
TestOpensNoSegment ==
  AtTestEvent => DOMAIN replay_entry(ReplayState).segments = DOMAIN segments

\* C28 as stated: with mds_debug_subtrees, every event other than a
\* SUBTREEMAP_TEST event that a call journals is followed by a
\* SUBTREEMAP_TEST event, and replay of a SUBTREEMAP_TEST event inserts no
\* segment.
C28_Original ==
  /\ (debug_subtrees /\ cur_event # NULL /\ CanSubmit) =>
       \A maps \in MapChoices :
          LET s == submit_entry(WriteState, cur_event, maps)
          IN \A i \in Journalled(s) :
               s.submitted[i].type # EVENT_SUBTREEMAP_TEST
                 => FollowedByTest(s, i)
  /\ TestOpensNoSegment

\* C28 amended: with mds_debug_subtrees, an event other than a
\* SUBTREEMAP_TEST event that a call journals is followed by a
\* SUBTREEMAP_TEST event iff it is neither a SUBTREE_MAP nor an
\* IMPORT_FINISH during resolve and no segment is started after it; a call
\* injects at most one such event; replay of a SUBTREEMAP_TEST event
\* inserts no segment.
C28_InjectionRule ==
  /\ (debug_subtrees /\ cur_event # NULL /\ CanSubmit) =>
       \A maps \in MapChoices :
          LET s == submit_entry(WriteState, cur_event, maps)
          IN /\ \A i \in Journalled(s) :
                  s.submitted[i].type # EVENT_SUBTREEMAP_TEST
                    => (FollowedByTest(s, i) <=>
                          /\ ~Suppressed(s.submitted[i])
                          /\ EndOf(s, i) \notin DOMAIN s.segments)
             /\ Cardinality(JournalledOf(s, EVENT_SUBTREEMAP_TEST)) <= 1
  /\ TestOpensNoSegment

\* C28 witness: a log written with mds_debug_subtrees is replayed; a
\* SUBTREEMAP_TEST event that followed an event of a caller has been
\* replayed and no segment starts at its offset.
C28_Witness ==
  /\ readonly /\ debug_subtrees /\ DOMAIN segments # {}
  /\ \E i \in 2..Len(dispatched) :
       /\ dispatched[i].type = EVENT_SUBTREEMAP_TEST
       /\ dispatched[i - 1].type \in {EVENT_UPDATE, EVENT_IMPORTFINISH}
       /\ dispatched[i].start_off \notin DOMAIN segments

\* the segment try_expire is called on is in the expiring set only
OnlyExpiring(t, ls) == ls \in t.expiring /\ ls \notin t.expired

\* the segment is in the expired set only
OnlyExpired(t, ls) == ls \in t.expired /\ ls \notin t.expiring

\* _expired declines the segment: it is the current one of an uncapped log
Declined(ls) == ~capped /\ ls = peek_current_segment(segments)

\* C29 as stated: try_expire leaves the segment in expiring only when the
\* gather has work, and in expired only when the gather is empty; this
\* holds for the call trim makes and for the one the completion of the
\* gather makes.
C29_Original ==
  ~readonly =>
    /\ \A ls \in ExpireCandidates :
         /\ OnlyExpiring(try_expire(TrimState, ls, TRUE), ls)
         /\ OnlyExpired(try_expire(TrimState, ls, FALSE), ls)
    /\ \A ls \in expiring_segments :
         /\ OnlyExpiring(maybe_expired(TrimState, ls, TRUE), ls)
         /\ OnlyExpired(maybe_expired(TrimState, ls, FALSE), ls)

\* C29 amended: try_expire leaves the segment in expiring only when the
\* gather has work; when the gather is empty it leaves the segment in
\* expired only, unless the segment is the current one of an uncapped log,
\* which it leaves in neither set; this holds for the call trim makes and
\* for the one the completion of the gather makes.
C29_TryExpire ==
  ~readonly =>
    /\ \A ls \in ExpireCandidates :
         /\ OnlyExpiring(try_expire(TrimState, ls, TRUE), ls)
         /\ IF Declined(ls)
            THEN LET t == try_expire(TrimState, ls, FALSE)
                 IN ls \notin t.expiring \cup t.expired
            ELSE OnlyExpired(try_expire(TrimState, ls, FALSE), ls)
    /\ \A ls \in expiring_segments :
         /\ OnlyExpiring(maybe_expired(TrimState, ls, TRUE), ls)
         /\ IF Declined(ls)
            THEN LET t == maybe_expired(TrimState, ls, FALSE)
                 IN ls \notin t.expiring \cup t.expired
            ELSE OnlyExpired(maybe_expired(TrimState, ls, FALSE), ls)

\* C29 witness: in a capped log the current segment has expired while an
\* older one is expiring.
C29_Witness ==
  /\ capped /\ DOMAIN segments # {}
  /\ get_current_segment(segments) \in expired_segments
  /\ expiring_segments # {}

\* the longest prefix of the index whose segments are all expired
ExpiredPrefix ==
  {k \in DOMAIN segments :
     \A j \in DOMAIN segments : j <= k => j \in expired_segments}

\* C30: _trim_expired_segments removes exactly the longest prefix of the
\* index whose segments are all expired and subtracts their events from
\* num_events; the other segments stay as they are, expired or not, and
\* the journal head is written iff a segment was removed.
C30_TrimExpiredPrefix ==
  ~readonly =>
    LET t == trim_expired_segments(TrimState)
    IN /\ DOMAIN t.segments = DOMAIN segments \ ExpiredPrefix
       /\ \A k \in DOMAIN t.segments : t.segments[k] = segments[k]
       /\ t.num_events = num_events - SumEvents(segments, ExpiredPrefix)
       /\ t.expired = expired_segments \ ExpiredPrefix
       /\ t.expiring = expiring_segments
       /\ IF ExpiredPrefix = {}
          THEN t.head_expire = head_expire /\ t.expire_pos = expire_pos
          ELSE t.head_expire = t.expire_pos

\* C30 witness: a trim has removed the oldest segment and has left an
\* expired segment behind an older one that is still expiring.
C30_Witness ==
  /\ ~readonly /\ DOMAIN segments # {}
  /\ get_oldest_segment(segments) > 0
  /\ get_oldest_segment(segments) \in expiring_segments
  /\ expired_segments # {}

\* a writer whose journal head lags behind expire_pos has nothing to trim
C30_HeadLags ==
  /\ ~readonly /\ head_expire < expire_pos
  /\ DOMAIN segments # {} /\ ExpiredPrefix = {}

\* C31: the expiring set never holds more than max_expiring segments.
C31_ExpiringBounded ==
  Cardinality(expiring_segments) <= mds_log_max_expiring

\* C31 witness: max_expiring segments are expiring and a trim() without
\* event budget would have tried a further flushed segment.
C31_Witness ==
  /\ ~readonly
  /\ Cardinality(expiring_segments) = mds_log_max_expiring
  /\ ExpireCandidates # {}
  /\ OverLimits(TrimState, 0)

\* a call of the submit path fails and leaves the journal as it is
FailsUnwritten(s) == s.failed /\ s.stream = stream

\* in a capped log every submit_entry and every start_new_segment fails
\* with the journal as it is, and an empty gather expires the current
\* segment once it is flushed
CappedLog ==
  capped =>
    /\ \A maps \in MapChoices :
         /\ \A le \in StampedEvents \cup {cur_event} :
              FailsUnwritten(submit_entry(WriteState, le, maps))
         /\ FailsUnwritten(start_new_segment(WriteState, maps))
    /\ (~readonly /\ DOMAIN segments # {}
        /\ get_current_segment(segments) \in ExpireCandidates)
         => get_current_segment(segments)
              \in try_expire(TrimState, get_current_segment(segments),
                             FALSE).expired

\* C32: once capped the log stays capped and takes no write: every
\* submit_entry fails before anything is appended and write_pos does not
\* move; the current segment of a capped log is expired like any other.
C32_CappedTakesNoWrite ==
  /\ []CappedLog
  /\ [][capped => (capped' /\ write_pos' = write_pos /\ stream' = stream)]_vars

\* C32 witness: a capped log that held segments has had all of them
\* trimmed, the current one included, and a caller holds an entry whose
\* submit fails.
C32_Witness ==
  /\ capped /\ ~readonly
  /\ DOMAIN segments = {}
  /\ write_pos > 0 /\ expire_pos > 0
  /\ cur_event # NULL

\* the event types at which replay opens a segment
SegmentOpeners == {EVENT_SUBTREEMAP, EVENT_RESETJOURNAL}

\* the event of the entry at offset b of the journal, NULL if it cannot be
\* decoded
EventAt(b) == decode(try_read_entry(stream, b).bl)

\* the offsets below pos of the events that open a segment
OpenersBelow(pos) ==
  {b \in Boundaries(stream) \ {Len(stream)} :
     b < pos /\ EventAt(b) # NULL /\ EventAt(b).type \in SegmentOpeners}

\* the replay task is about to read the entry at read_pos
ReadsEntry ==
  /\ replay_pc = "running" /\ jerror = 0
  /\ read_pos < write_pos
  /\ EventAt(read_pos) = NULL => mds_log_skip_corrupt_events

\* what reading the entry at read_pos does to the log
EntryAttached ==
  LET rs == replay_entry(ReplayState)
      rd == try_read_entry(stream, read_pos)
      le == EventAt(read_pos)
  IN IF le = NULL \/ (DOMAIN segments = {} /\ le.type \notin SegmentOpeners)
     THEN /\ rs.dispatched = dispatched
          /\ rs.num_events = num_events
          /\ rs.segments = segments
     ELSE LET g == Max(DOMAIN rs.segments) IN
          /\ rs.dispatched = Append(dispatched, [le EXCEPT !.start_off = read_pos])
          /\ rs.num_events = num_events + 1
          /\ g = (IF le.type \in SegmentOpeners
                  THEN read_pos ELSE Max(DOMAIN segments))
          /\ rs.segments[g].end = rd.next
          /\ rs.segments[g].num_events =
               (IF le.type \in SegmentOpeners
                THEN 1 ELSE segments[g].num_events + 1)
          /\ \A k \in DOMAIN rs.segments \ {g} :
               k \in DOMAIN segments /\ rs.segments[k] = segments[k]

\* C33: until replay has read a SUBTREE_MAP or RESET_JOURNAL event nothing
\* is dispatched, counted or attached; the key of every segment of the
\* replayed index is the offset of such an event; and an event that is
\* replayed goes to the segment with the greatest key, whose end becomes
\* the read position after the event.
C33_ReplayAttach ==
  readonly =>
    /\ OpenersBelow(read_pos) = {}
         => dispatched = <<>> /\ num_events = 0 /\ DOMAIN segments = {}
    /\ DOMAIN segments \subseteq OpenersBelow(read_pos)
    /\ ReadsEntry => EntryAttached

\* C33 witness: a replay has completed over a journal in which an event
\* that decodes came before the first SUBTREE_MAP or RESET_JOURNAL event;
\* it was skipped, the event after it was replayed.
C33_Witness ==
  /\ replay_pc = "done" /\ replay_r = {0}
  /\ dispatched # <<>>
  /\ \E b \in Boundaries(stream) \ {Len(stream)} :
       /\ EventAt(b) # NULL
       /\ b < dispatched[1].start_off

\* the replay task has found the error EINVAL in the Journaler
EinvalFound ==
  /\ readonly /\ jerror = EINVAL
  /\ replay_pc \in {"running", "reread_wait"}

\* what the error branch leaves when the journal head holds head
AfterError(head) == replay_error(ReplayState, jerror, head)

\* C34 as stated: with EINVAL and read_pos < expire_pos the replay reads
\* the journal head again, calls standby_trim_segments and returns EAGAIN
\* only if read_pos is still below expire_pos.
C34_Original ==
  (EinvalFound /\ read_pos < expire_pos) =>
    \A head \in HeadChoices :
       /\ AfterError(head).expire_pos = head
       /\ AfterError(head).segments = StandbyTrimmed(head).segments
       /\ AfterError(head).r = EAGAIN <=> read_pos < head

\* the outcome of the error branch for EINVAL in either case
EinvalOutcome ==
  EinvalFound =>
    \A head \in HeadChoices :
       IF read_pos < expire_pos
       THEN /\ ~rereads_head(ReplayState, jerror)
            /\ replay_pc = "running"
            /\ AfterError(head).r = EAGAIN
            /\ AfterError(head).expire_pos = expire_pos
            /\ AfterError(head).segments = segments
       ELSE /\ rereads_head(ReplayState, jerror)
            /\ AfterError(head).expire_pos = head
            /\ AfterError(head).segments = StandbyTrimmed(head).segments
            /\ AfterError(head).r = (IF read_pos < head THEN EAGAIN ELSE EINVAL)

\* the task waits for the head without mds_lock
RereadUnlocked ==
  replay_pc = "reread_wait" =>
    ~mds_lock /\ jerror = EINVAL /\ read_pos >= expire_pos

\* the task ends from the loop, without reading the head, only below
\* expire_pos, and from the wait for the head with what the head holds
EinvalEnds ==
  (jerror = EINVAL /\ replay_pc' = "done" /\ replay_pc # "done") =>
     /\ replay_pc = "running" =>
          /\ read_pos < expire_pos
          /\ replay_r' = {EAGAIN}
          /\ UNCHANGED <<segments, expire_pos>>
     /\ replay_pc = "reread_wait" =>
          /\ expire_pos' \in HeadChoices
          /\ replay_r' = {AfterError(expire_pos').r}
          /\ segments' = AfterError(expire_pos').segments
     /\ replay_pc \in {"running", "reread_wait"}

\* C34 amended: with EINVAL and read_pos < expire_pos the replay returns
\* EAGAIN at once and leaves the head and the segments alone; with EINVAL
\* and read_pos >= expire_pos it reads the journal head again with the
\* metadata-source lock released, calls standby_trim_segments, and returns
\* EAGAIN if read_pos is below the new expire_pos and EINVAL otherwise.
C34_EinvalHandling ==
  /\ []EinvalOutcome
  /\ []RereadUnlocked
  /\ [][EinvalEnds]_vars

\* C34 witness: the replay of a standby finds EINVAL with read_pos below
\* expire_pos while the journal head has moved past expire_pos.
C34_Witness ==
  /\ EinvalFound /\ replay_pc = "running"
  /\ read_pos < expire_pos
  /\ \E head \in HeadChoices : head > expire_pos

\* a replay has read the head again, trimmed a segment and ended with EINVAL
C34_RereadTrimmed ==
  /\ readonly /\ jerror = EINVAL
  /\ replay_pc = "done" /\ replay_r = {EINVAL}
  /\ expire_pos > 0 /\ read_pos >= expire_pos
  /\ dispatched # <<>>
  /\ \A k \in DOMAIN segments : k >= expire_pos

\* the replay task is between its start and its end
ReplayTaskRuns ==
  replay_pc \in {"running", "readable_wait", "readable", "reread_wait"}

\* the replay task has ended: it has completed the waiters, or the process
\* has ended with it
ReplayTaskEnded == replay_pc \in {"done", "aborted", "suicide"}

\* the task completes the waiters once, when it ends, and replay() does so
\* itself only for an empty journal, without starting the task
CompletedOnce ==
  /\ replay_r' # replay_r =>
       \/ ReplayTaskRuns /\ replay_pc' = "done" /\ Cardinality(replay_r') = 1
       \/ /\ ~ReplayTaskRuns /\ replay_pc' = replay_pc
          /\ read_pos = write_pos /\ replay_r' = {0}
       \/ ~ReplayTaskRuns /\ replay_pc' = "running" /\ replay_r' = {}
  /\ (ReplayTaskRuns /\ replay_pc' = "done") => replay_r = {} /\ replay_r' # {}
  /\ (~ReplayTaskRuns /\ replay_pc' = "running") => read_pos < write_pos

\* C35 as stated, the status: 0 at write_pos, EAGAIN for the backend error
\* ENOENT, and otherwise the backend's error code.
C35_Original ==
  [][(ReplayTaskRuns /\ replay_pc' = "done") =>
       replay_r' = {IF jerror = 0 THEN 0
                    ELSE IF jerror = ENOENT THEN EAGAIN
                    ELSE jerror}]_vars

\* the status the task ends with
FinalStatus ==
  (ReplayTaskRuns /\ replay_pc' = "done") =>
     /\ replay_r' = {IF jerror = 0 THEN 0
                     ELSE IF jerror = ENOENT THEN EAGAIN
                     ELSE IF jerror = EINVAL /\ read_pos' < expire_pos'
                     THEN EAGAIN
                     ELSE jerror}
     /\ jerror = 0 => read_pos = write_pos

\* C35 amended: every replay that ends completes the replay waiters exactly
\* once with the final status: 0 only when read_pos == write_pos was reached
\* (immediately, without starting the replay task, when the journal is
\* empty), EAGAIN when the backend error is ENOENT or is EINVAL with
\* read_pos below expire_pos, and otherwise the backend's error code; given
\* that the backend eventually becomes readable or reports an error, the
\* replay task eventually ends, with that completion or with the end of the
\* process at an event that cannot be decoded or a head that cannot be read.
C35_ReplayCompletes ==
  /\ [](replay_r = {0} => read_pos = write_pos)
  /\ [][CompletedOnce /\ FinalStatus]_vars
  /\ ReplayTaskRuns ~> ReplayTaskEnded

\* C35 witness: a replay task has read a journal of several events to its
\* end, completed the waiters with 0 and given up the lock.
C35_Witness ==
  /\ replay_pc = "done" /\ replay_r = {0} /\ jerror = 0
  /\ read_pos = write_pos /\ write_pos > 0
  /\ Len(dispatched) >= 2
  /\ ~mds_lock

\* a replay of an empty journal has completed at once
C35_EmptyJournal ==
  /\ replay_pc = "idle" /\ replay_r = {0}
  /\ write_pos = 0 /\ ~already_replayed

\* a replay has ended with EAGAIN for the backend error ENOENT
C35_Enoent ==
  /\ replay_pc = "done" /\ replay_r = {EAGAIN} /\ jerror = ENOENT

\* a replay has ended with the backend's error code
C35_OtherError ==
  /\ replay_pc = "done" /\ replay_r = {EIO} /\ jerror = EIO

\* where the recovery and reformat tasks wait for a completion of the
\* backend: recover, erase, write_head, wait_for_readable, flush
RecoveryWaits ==
  {"back_recover_wait", "back_erase_wait", "front_recover_wait",
   "rf_write_head_wait", "rf_readable_wait", "rf_flush_wait", "rf_erase_wait"}

\* where the replay task waits: wait_for_readable, reread_head
ReplayWaits == {"readable_wait", "reread_wait"}

\* C36: a recovery, reformat or replay task that waits for a completion of
\* the backend does not hold the metadata-source lock, and it holds the
\* lock again when it goes on with its loop after the wait.
C36_WaitsUnlocked ==
  /\ rpc \in RecoveryWaits => ~mds_lock
  /\ replay_pc \in ReplayWaits => ~mds_lock
  /\ rpc = "rf_loop" => mds_lock
  /\ replay_pc \in {"running", "readable"} => mds_lock

\* C36 witness: the reformat has transcribed an entry under the lock and
\* waits without it for the next one to become readable.
C36_Witness ==
  /\ rpc = "rf_readable_wait"
  /\ task.read_pos > 0 /\ task.new_journal # <<>>
  /\ ~mds_lock

\* the replay task waits for the journal head without the lock
C36_ReplayWaits ==
  /\ replay_pc = "reread_wait" /\ ~mds_lock
  /\ dispatched # <<>>

\* C37: the recovery and reformat tasks make every call into the object
\* backend and every invocation of the recovery completion, on the success
\* paths and on the path of a failed recover of the front journal, with the
\* metadata-source lock held.
C37_CallsUnderLock == unlocked_calls = {}

\* the only call made without the lock is the completion, and only with the
\* error of a failed recover of the front journal
C37_OnlyFailureCompletion ==
  /\ unlocked_calls \subseteq {"complete"}
  /\ unlocked_calls # {} => rpc = "done" /\ completion = {EIO}
  /\ (rpc = "done" /\ completion = {0}) => unlocked_calls = {}

====
